---- MODULE Spec2Model ----
(***************************************************************************)
(* Model of the interactive shell subsystem of the CLI:                    *)
(* src/src/ifw/shell/exec_shell.py, class ShellExecutor.                   *)
(*                                                                         *)
(* Three kinds of threads of control act on one executor object:           *)
(*   - the invoking thread (execute_shell_command / _execute_with_pty /    *)
(*     _cleanup_pty), position in mainpc;                                  *)
(*   - one I/O pump worker per PTY execution (_handle_pty_io), position    *)
(*     in worker[k].pc, k the number of the execution that started it;     *)
(*   - a thread calling interrupt_current_command, position in intpc.      *)
(* The operating system is modelled by the terminal attributes (term),     *)
(* the descriptor table (fdtable), the PTY buffers (ptyq) and the child    *)
(* processes (child).                                                      *)
(***************************************************************************)
EXTENDS Integers, Sequences, FiniteSets, TLC

\* ---------------------------------------------------------------- bounds
MaxInv == 2        \* PTY executions in one behaviour
MaxKI == 1         \* KeyboardInterrupts delivered to the invoking thread
MaxInt == 1        \* interrupt_current_command calls (SpecInterrupt)
IntMaxInv == 1     \* PTY executions in one behaviour of SpecInterrupt
FaultMaxInv == 1   \* PTY executions in one behaviour of SpecFaults
MaxFault == 1      \* failing cleanup steps in one behaviour of SpecFaults
SessMaxInv == 1    \* PTY executions in one behaviour of SpecSession
SessMaxCd == 2     \* cd commands in one behaviour of SpecSession
MaxCd == 4         \* cd commands in one behaviour of SpecCd
EnvMaxInv == 2     \* PTY executions in one behaviour of SpecEnv
MaxReset == 1      \* calls of reset_state in one behaviour
FmtMaxChunks == 2  \* chunks in the capture buffer (SpecFormat)
FmtMaxLen == 2     \* tokens in one chunk (SpecFormat)

Inv == 1..MaxInv
None == 0          \* Python None for master_fd / slave_fd / process
FdNums == 3..(2 + 2 * MaxInv)

\* ------------------------------------------------------ text and commands
\* Terminal output is a sequence of tokens:
\*   "h"   a printable character
\*   "nl"  a newline (white space)
\*   "sgr" a CSI colour sequence, matched by \x1b\[[0-9;]*[mK]
\*   "alt" a raw-mode trigger such as \x1b[?1049h (not matched by that regex)
RawTriggers == {"alt"}

RECURSIVE JoinChunks(_)
\* ''.join(self.output_buffer)
JoinChunks(buf) ==
    IF buf = <<>> THEN <<>> ELSE Head(buf) \o JoinChunks(Tail(buf))

RECURSIVE LStrip(_)
LStrip(s) == IF s # <<>> /\ Head(s) = "nl" THEN LStrip(Tail(s)) ELSE s

RECURSIVE RStrip(_)
RStrip(s) ==
    IF s # <<>> /\ s[Len(s)] = "nl" THEN RStrip(SubSeq(s, 1, Len(s) - 1)) ELSE s

\* str.strip()
Strip(s) == LStrip(RStrip(s))

RECURSIVE ReSubAnsi(_)
\* re.sub(r'\x1b\[[0-9;]*[mK]', '', s)
ReSubAnsi(s) ==
    IF s = <<>> THEN <<>>
    ELSE IF Head(s) = "sgr" THEN ReSubAnsi(Tail(s))
    ELSE <<Head(s)>> \o ReSubAnsi(Tail(s))

\* captured_output -> clean_output
CleanOutput(buf) == Strip(ReSubAnsi(Strip(JoinChunks(buf))))

\* any(seq in data_str for seq in [...])
HasTrigger(data) == \E i \in 1..Len(data) : data[i] \in RawTriggers

\* f"{exit_code}"
CodeStr(n) ==
    CASE n = 0 -> "0" [] n = 1 -> "1" [] n = 3 -> "3" [] n = -2 -> "-2"
      [] n = -15 -> "-15" [] n = -9 -> "-9" [] OTHER -> "?"

ExitMarker(n) == "X Command exited with code " \o CodeStr(n)
ErrorMarker == "X Error executing command"
InterruptedText == <<"STOP Command interrupted">>

\* the marker glued to the text without the newline between them
FormatResultNoNewline(clean, exit_code) ==
    IF exit_code = 0 THEN clean ELSE clean \o <<ExitMarker(exit_code)>>

\* Return value of the normal path of _execute_with_pty
FormatResult(clean, exit_code) ==
    IF exit_code = 0 THEN clean
    ELSE IF clean # <<>> THEN clean \o <<"nl", ExitMarker(exit_code)>>
    ELSE <<ExitMarker(exit_code)>>

\* The commands of the model. A PTY command: what the child writes to the
\* slave end, chunk by chunk, how it ends and which signals it ignores.
\*   stay: the program does not end by itself (an editor, a pager, sleep)
\* arg is the command string, words is command.strip().split().
PtyCommands ==
    { [kind |-> "pty", arg |-> "echo", words |-> <<"echo">>,
       out |-> << <<"h", "nl">> >>, code |-> 0,
       stay |-> FALSE, ignInt |-> FALSE, ignTerm |-> FALSE],
      [kind |-> "pty", arg |-> "vi", words |-> <<"vi">>,
       out |-> << <<"alt">>, <<"h">> >>, code |-> 0,
       stay |-> TRUE, ignInt |-> TRUE, ignTerm |-> TRUE],
      [kind |-> "pty", arg |-> "top", words |-> <<"top">>,
       out |-> << <<"alt">> >>, code |-> 0,
       stay |-> TRUE, ignInt |-> FALSE, ignTerm |-> FALSE],
      [kind |-> "pty", arg |-> "exit 3", words |-> <<"exit", "3">>,
       out |-> <<>>, code |-> 3,
       stay |-> FALSE, ignInt |-> FALSE, ignTerm |-> FALSE] }

\* Commands about the session: the shell builtins pwd, export and unset, and
\* rmdir, which removes a directory (exit code 1 when there is none).
SessionCommands ==
    { [kind |-> "pty", arg |-> "pwd", words |-> <<"pwd">>,
       out |-> << <<"h", "nl">> >>, code |-> 0,
       stay |-> FALSE, ignInt |-> FALSE, ignTerm |-> FALSE],
      [kind |-> "pty", arg |-> "export K=V", words |-> <<"export", "K=V">>,
       out |-> <<>>, code |-> 0,
       stay |-> FALSE, ignInt |-> FALSE, ignTerm |-> FALSE],
      [kind |-> "pty", arg |-> "unset K", words |-> <<"unset", "K">>,
       out |-> <<>>, code |-> 0,
       stay |-> FALSE, ignInt |-> FALSE, ignTerm |-> FALSE],
      [kind |-> "pty", arg |-> "rmdir /tmp", words |-> <<"rmdir", "/tmp">>,
       out |-> <<>>, code |-> 0,
       stay |-> FALSE, ignInt |-> FALSE, ignTerm |-> FALSE] }

\* cd commands: cd (home), cd -, cd /tmp, cd /nope
CdArgs == {"", "-", "/tmp", "/nope", ".."}
CdCommands ==
    { [kind |-> "cd", arg |-> IF a = "" THEN "cd" ELSE "cd " \o a,
       words |-> IF a = "" THEN <<"cd">> ELSE <<"cd", a>>,
       out |-> <<>>, code |-> 0,
       stay |-> FALSE, ignInt |-> FALSE, ignTerm |-> FALSE] : a \in CdArgs }

NoCommand == [kind |-> "none", arg |-> "", words |-> <<>>, out |-> <<>>, code |-> 0,
              stay |-> FALSE, ignInt |-> FALSE, ignTerm |-> FALSE]

\* The directories that exist at the start; the process starts in StartDir.
Dirs == {"/", "/start", "/home", "/tmp"}
StartDir == "/start"
HomeDir == "/home"
\* os.environ, which the executor copies and never writes
OsEnviron == [PWD |-> StartDir]

SIGINT == 2
SIGTERM == 15
SIGKILL == 9

VARIABLES
    \* ---- ShellExecutor fields
    current_dir, previous_dir, env_vars, shell_history,
    master_fd, slave_fd, process, original_settings,
    output_buffer, stop_io, io_thread,
    \* ---- the invoking thread
    mainpc,      \* position in execute_shell_command
    cmd,         \* the command being executed
    inv,         \* number of PTY executions started
    exit_code,   \* local exit_code of _execute_with_pty
    result,      \* value returned by the last call
    outcome,     \* "none" | "returned" | "raised"
    cret,        \* which call of _cleanup_pty is running: "ki" | "exc" | "fin"
    pend,        \* a KeyboardInterrupt is propagating through the finally clause
    \* ---- the pump workers
    worker,
    \* ---- the thread calling interrupt_current_command
    intpc, int_pid, int_result, int_sig,
    \* ---- operating system
    term,        \* attributes of the caller's terminal: "cooked" | "raw"
    stdin_tty,   \* sys.stdin.isatty() and sys.stdout.isatty()
    fdtable,     \* descriptor number -> 0 closed, k master of PTY k, -k slave
    ptyq,        \* bytes written to the slave of PTY k and not yet read
    child,       \* the child process of execution k
    dirs,        \* the directories that exist in the file system
    \* ---- budgets and history
    ki_left, int_left, cd_left, inv_left,
    fault_left,  \* failures of cleanup steps still to be injected
    reset_left,  \* calls of reset_state still to be made
    exported,    \* the last successful export K=V / unset K was an export
    restored,    \* cleanup restored the terminal during this call
    joined,      \* the invoking thread joined the worker during this call
    buf_read,    \* the invoking thread read the buffer to build the result
    newlines,    \* newlines written to stdout by cleanup during this call
    raw_count,   \* calls of tty.setraw during this call (2: two or more)
    \* ---- the classifier (ShellCommandDetector)
    user_input,          \* the text being classified
    available_commands,  \* the names the detector knows
    is_shell,            \* "none" | "true" | "false" | "raised"
    \* ---- the command line interface (CommandProcessor, CLIController)
    processor,   \* the fields of the CommandProcessor
    pcall,       \* the running or the last call of process_command
    controller,  \* the fields of the CLIController and the position of run()
    proc_left,   \* calls of process_command still to be made directly
    line_left,   \* inputs still to be given to the prompt
    \* ---- the session manager (SessionManager)
    session,     \* the context cache, and what the last calls returned
    sm_left,     \* calls of the session manager still to be made
    \* ---- the shell command handler (ShellCommandHandler)
    shell_handler  \* what handle returned, and agent.messages

vars == <<current_dir, previous_dir, env_vars, shell_history,
          master_fd, slave_fd, process, original_settings,
          output_buffer, stop_io, io_thread,
          mainpc, cmd, inv, exit_code, result, outcome, cret, pend,
          worker, intpc, int_pid, int_result, int_sig,
          term, stdin_tty, fdtable, ptyq, child,
          dirs, ki_left, int_left, cd_left, inv_left, fault_left, reset_left,
          exported,
          restored, joined, buf_read, newlines, raw_count,
          user_input, available_commands, is_shell,
          processor, pcall, controller, proc_left, line_left,
          session, sm_left, shell_handler>>

execVars == <<current_dir, previous_dir, env_vars, shell_history,
              master_fd, slave_fd, process, original_settings,
              output_buffer, stop_io, io_thread>>
mainVars == <<mainpc, cmd, inv, exit_code, result, outcome, cret, pend>>
intVars == <<intpc, int_pid, int_result, int_sig>>
ghostVars == <<inv_left, restored, joined, buf_read, newlines, raw_count>>
\* the classifier, which the executor never touches
frontVars == <<user_input, available_commands, is_shell,
               processor, pcall, controller, proc_left, line_left,
               session, sm_left, shell_handler>>
\* the session manager
sessVars == <<session, sm_left>>
\* the shell command handler
handlerVars == <<shell_handler>>
\* the command line interface, which the classifier's driver never touches
cliVars == <<processor, pcall, controller, proc_left, line_left>>
\* what the PTY path and interrupt_current_command never change
fixedVars == <<stdin_tty, dirs, fault_left, reset_left, exported>>

NewWorker == [pc |-> "new", raw_mode_set |-> FALSE, ready |-> <<>>, data |-> <<>>]
\* cwd and env are the working directory and the environment of the child
NoChild == [st |-> "none", code |-> 0, pos |-> 0, cmd |-> NoCommand,
            cwd |-> "", env |-> [PWD |-> ""]]

\* ShellExecutor.__init__, in a process whose terminal is in cooked mode
InitShellExecutor ==
    /\ current_dir = StartDir
    /\ previous_dir = "unset"
    /\ env_vars = OsEnviron
    /\ shell_history = <<>>
    /\ master_fd = None /\ slave_fd = None /\ process = None
    /\ original_settings = "none"
    /\ output_buffer = <<>>
    /\ stop_io = FALSE
    /\ io_thread = None
    /\ mainpc = "idle" /\ cmd = NoCommand /\ inv = 0 /\ exit_code = 0
    /\ result = <<>> /\ outcome = "none" /\ cret = "fin" /\ pend = FALSE
    /\ worker = [k \in Inv |-> NewWorker]
    /\ intpc = "idle" /\ int_pid = None /\ int_result = FALSE /\ int_sig = 0
    /\ term = "cooked"
    /\ stdin_tty \in BOOLEAN
    /\ dirs = Dirs /\ exported = FALSE
    /\ fdtable = [n \in FdNums |-> 0]
    /\ ptyq = [k \in Inv |-> <<>>]
    /\ child = [k \in Inv |-> NoChild]
    /\ restored = FALSE /\ joined = FALSE /\ buf_read = FALSE /\ newlines = 0
    /\ raw_count = 0

\* The names load_commands() found in the directories of PATH; a name is the
\* sequence of the atoms of a token
LoadedCommands == {<<"ls">>}

\* self.handlers of the CLIController, in priority order; a handler is known
\* to the processor by the name of its class
Handlers == <<"ControlCommandHandler", "ShellCommandHandler", "AIRequestHandler">>
HandlerNames == {Handlers[i] : i \in 1..Len(Handlers)}

\* CommandProcessor.__init__
NewProcessor ==
    [handlers |-> Handlers,
     commands_processed |-> 0, successful_commands |-> 0, failed_commands |-> 0,
     handler_stats |-> [n \in HandlerNames |->
                           [processed |-> 0, successful |-> 0, failed |-> 0]]]

\* No call of process_command yet. pc is the position in process_command,
\* i the index of the handler the loop is at, selected_handler the index of
\* the handler chosen (0: None), result what the call returned or raised,
\* answers the handlers consulted with what can_handle gave, handled the
\* handlers whose handle was called, gave what handle returned or raised
NoCall ==
    [pc |-> "idle", user_input |-> [type |-> "NoneType", text |-> <<>>], i |-> 0,
     selected_handler |-> 0, result |-> "none", answers |-> <<>>,
     handled |-> <<>>, gave |-> "none"]

\* CLIController.__init__: the runtime state, run() not entered. read is the
\* list of the lines the prompt returned, passed the list of the lines given
\* to the command processor
NewController ==
    [pc |-> "new", running |-> FALSE, exit_requested |-> FALSE,
     raised |-> "none", read |-> <<>>, passed |-> <<>>]

\* SessionManager.__init__. context is what the last get_context returned
\* (its "cwd" entry; the user and the host never change here); computed and
\* failed tell whether that call made the system calls and whether they
\* failed; prompt_cwd is the directory the last prompt showed and prompt_dir
\* the executor's directory at that time; last is the last method called and
\* returned tells whether it returned
NewSession ==
    [context_cache |-> "None", context_cache_valid |-> TRUE,
     context |-> "none", computed |-> FALSE, failed |-> FALSE,
     prompt_cwd |-> "none", prompt_dir |-> "none",
     last |-> "none", returned |-> TRUE]

\* The session manager constructed and not used
SessIdle ==
    /\ session = NewSession
    /\ sm_left = 0

\* ShellCommandHandler after construction, with an agent that has no messages
NewShellHandler == [success |-> "none", messages |-> <<>>, handled |-> 0]

HandlerIdle == shell_handler = NewShellHandler

\* The command line interface constructed and not used
CliIdle ==
    /\ SessIdle
    /\ HandlerIdle
    /\ processor = NewProcessor
    /\ pcall = NoCall
    /\ controller = NewController
    /\ proc_left = 0
    /\ line_left = 0

\* ShellCommandDetector.__init__, and no text classified yet
FrontIdle ==
    /\ user_input = <<>>
    /\ available_commands = LoadedCommands
    /\ is_shell = "none"
    /\ CliIdle

\* detector = ShellCommandDetector(); executor = ShellExecutor()
InitExecutor == InitShellExecutor /\ FrontIdle

\* ------------------------------------------------------- operating system
\* The lowest descriptor number that is free
LowestFree(tbl) ==
    CHOOSE n \in FdNums : tbl[n] = 0 /\ \A m \in FdNums : m < n => tbl[m] # 0

\* No descriptor of the slave end of PTY k is open any more: a read of the
\* master returns what is buffered and then fails (EIO) or returns no bytes
Hangup(k) ==
    /\ \A n \in FdNums : fdtable[n] # -k
    /\ child[k].st \notin {"running", "dying"}

\* Popen.wait() holds the Popen's waitpid lock while the invoking thread
\* blocks in it; poll() of another thread then returns None
WaitLockHeld(k) == mainpc = "wait" /\ process = k

\* self.process.poll() is None, for the Popen of execution k
PollNone(k) ==
    \/ child[k].st \in {"running", "dying"}
    \/ child[k].st = "zombie" /\ WaitLockHeld(k)

\* the effect of poll(): an exited child is reaped and its returncode kept
PollChild(k) ==
    IF child[k].st = "zombie" /\ ~WaitLockHeld(k)
    THEN [child EXCEPT ![k].st = "reaped"]
    ELSE child

\* os.killpg(os.getpgid(pid), sig) on a process that exists
Signal(ch, k, sig) ==
    IF /\ ch[k].st = "running"
       /\ ~(sig = SIGINT /\ ch[k].cmd.ignInt)
       /\ ~(sig = SIGTERM /\ ch[k].cmd.ignTerm)
    THEN [ch EXCEPT ![k].st = "dying", ![k].code = 0 - sig]
    ELSE ch

\* os.getpgid(pid) succeeds: the process exists (running or not yet reaped)
PidExists(k) == child[k].st \in {"running", "dying", "zombie"}

\* The child writes its next chunk to the slave end
ChildWrite(k) ==
    /\ child[k].st = "running"
    /\ child[k].pos < Len(child[k].cmd.out)
    /\ ptyq' = [ptyq EXCEPT ![k] = Append(@, child[k].cmd.out[child[k].pos + 1])]
    /\ child' = [child EXCEPT ![k].pos = @ + 1]
    /\ UNCHANGED <<execVars, mainVars, worker, intVars, term, fixedVars, fdtable,
                   ki_left, int_left, cd_left, frontVars, ghostVars>>

\* The child ends by itself with the exit code of its command
ChildExit(k) ==
    /\ child[k].st = "running"
    /\ child[k].pos = Len(child[k].cmd.out)
    /\ ~child[k].cmd.stay
    /\ LET w == child[k].cmd.words
           rm == w[1] = "rmdir"
       IN /\ dirs' = IF rm THEN dirs \ {w[2]} ELSE dirs
          /\ child' = [child EXCEPT ![k] =
                [NoChild EXCEPT !.st = "zombie",
                                !.code = IF rm /\ w[2] \notin dirs THEN 1
                                         ELSE child[k].cmd.code]]
    /\ UNCHANGED <<execVars, mainVars, worker, intVars, term, stdin_tty,
                   fault_left, reset_left, exported, fdtable,
                   ptyq, ki_left, int_left, cd_left, frontVars, ghostVars>>

\* A child that received a fatal signal dies
ChildDie(k) ==
    /\ child[k].st = "dying"
    /\ child' = [child EXCEPT ![k] =
                    [NoChild EXCEPT !.st = "zombie", !.code = child[k].code]]
    /\ UNCHANGED <<execVars, mainVars, worker, intVars, term, fixedVars, fdtable,
                   ptyq, ki_left, int_left, cd_left, frontVars, ghostVars>>

\* ------------------------------------------------------ invoking thread
\* A caller invokes execute_shell_command(c)
Call(c) ==
    /\ mainpc = "idle"
    /\ c.kind = "pty" => inv_left > 0
    /\ inv_left' = IF c.kind = "pty" THEN inv_left - 1 ELSE inv_left
    /\ c.kind = "cd" => cd_left > 0
    /\ cmd' = c
    /\ inv' = IF c.kind = "pty" THEN inv + 1 ELSE inv
    /\ cd_left' = IF c.kind = "cd" THEN cd_left - 1 ELSE cd_left
    /\ mainpc' = "hist"
    /\ result' = <<>> /\ outcome' = "none" /\ pend' = FALSE /\ cret' = "fin"
    /\ restored' = FALSE /\ joined' = FALSE /\ buf_read' = FALSE /\ newlines' = 0
    /\ raw_count' = 0
    /\ UNCHANGED <<execVars, exit_code, worker, intVars, term, fixedVars, fdtable,
                   ptyq, child, ki_left, int_left, frontVars>>

\* _handle_builtin_command: cmd_parts and cmd_parts[0] == 'cd'
IsBuiltin(c) == c.words # <<>> /\ c.words[1] = "cd"

\* the command is put at the front of the history
HistPrepends ==
    /\ mainpc = "hist"
    /\ shell_history' = <<cmd.arg>> \o shell_history
    /\ mainpc' = IF IsBuiltin(cmd) THEN "cd" ELSE "clear"
    /\ UNCHANGED <<current_dir, previous_dir, env_vars, master_fd, slave_fd, process,
                   original_settings, output_buffer, stop_io, io_thread,
                   cmd, inv, exit_code, result, outcome, cret, pend,
                   worker, intVars, term, fixedVars, fdtable, ptyq, child,
                   ki_left, int_left, cd_left, frontVars, ghostVars>>

\* self.shell_history.append(command); _handle_builtin_command(command)
Hist ==
    /\ mainpc = "hist"
    /\ shell_history' = Append(shell_history, cmd.arg)
    /\ mainpc' = IF IsBuiltin(cmd) THEN "cd" ELSE "clear"
    /\ UNCHANGED <<current_dir, previous_dir, env_vars, master_fd, slave_fd, process,
                   original_settings, output_buffer, stop_io, io_thread,
                   cmd, inv, exit_code, result, outcome, cret, pend,
                   worker, intVars, term, fixedVars, fdtable, ptyq, child,
                   ki_left, int_left, cd_left, frontVars, ghostVars>>

\* os.path.isabs(target)
IsAbs(p) == p \in Dirs \cup {"/nope"}

\* os.path.join(self.current_dir, target) for a relative target
Join(d, target) == IF d = "/" THEN "/" \o target ELSE d \o "/" \o target

\* os.path.abspath(new_dir): ".." after a directory of the root is the root
AbsPath(p) == IF p \in {Join(d, "..") : d \in Dirs} THEN "/" ELSE p

\* new_dir of _handle_cd_command ("" when `cd -` has no previous directory)
CdTarget(cmd_parts) ==
    IF Len(cmd_parts) = 1 THEN HomeDir
    ELSE IF cmd_parts[2] = "-"
         THEN (IF previous_dir # "unset" THEN previous_dir ELSE "")
    ELSE IF IsAbs(cmd_parts[2]) THEN cmd_parts[2]
    ELSE Join(current_dir, cmd_parts[2])

\* a successful cd does not record the directory it was issued in
CdKeepsPrevious ==
    /\ mainpc = "cd"
    /\ LET new_dir == CdTarget(cmd.words)
           resolved_path == AbsPath(new_dir) IN
         IF new_dir = "" THEN
             /\ result' = <<"X", "No previous directory">>
             /\ UNCHANGED <<current_dir, previous_dir, env_vars>>
         ELSE IF resolved_path \in dirs THEN
             /\ previous_dir' = (IF previous_dir = "unset" THEN current_dir
                                 ELSE previous_dir)
             /\ current_dir' = resolved_path
             /\ env_vars' = [env_vars EXCEPT !.PWD = resolved_path]
             /\ result' = <<>>
         ELSE
             /\ result' = <<"X", "cd: no such file or directory">>
             /\ UNCHANGED <<current_dir, previous_dir, env_vars>>
    /\ mainpc' = "idle" /\ outcome' = "returned"
    /\ UNCHANGED <<shell_history, master_fd, slave_fd, process,
                   original_settings, output_buffer, stop_io, io_thread,
                   cmd, inv, exit_code, cret, pend,
                   worker, intVars, term, fixedVars, fdtable, ptyq, child,
                   ki_left, int_left, cd_left, frontVars, ghostVars>>

\* cd stores new_dir as it was given, not its absolute form
CdStoresUnresolved ==
    /\ mainpc = "cd"
    /\ LET new_dir == CdTarget(cmd.words)
           resolved_path == AbsPath(new_dir) IN
         IF new_dir = "" THEN
             /\ result' = <<"X", "No previous directory">>
             /\ UNCHANGED <<current_dir, previous_dir, env_vars>>
         ELSE IF resolved_path \in dirs THEN
             /\ previous_dir' = current_dir
             /\ current_dir' = new_dir
             /\ env_vars' = [env_vars EXCEPT !.PWD = new_dir]
             /\ result' = <<>>
         ELSE
             /\ result' = <<"X", "cd: no such file or directory">>
             /\ UNCHANGED <<current_dir, previous_dir, env_vars>>
    /\ mainpc' = "idle" /\ outcome' = "returned"
    /\ UNCHANGED <<shell_history, master_fd, slave_fd, process,
                   original_settings, output_buffer, stop_io, io_thread,
                   cmd, inv, exit_code, cret, pend,
                   worker, intVars, term, fixedVars, fdtable, ptyq, child,
                   ki_left, int_left, cd_left, frontVars, ghostVars>>

\* a failed cd records the directory it was issued in
CdFailRecordsPrevious ==
    /\ mainpc = "cd"
    /\ LET new_dir == CdTarget(cmd.words)
           resolved_path == AbsPath(new_dir) IN
         IF new_dir = "" THEN
             /\ result' = <<"X", "No previous directory">>
             /\ previous_dir' = current_dir
             /\ UNCHANGED <<current_dir, env_vars>>
         ELSE IF resolved_path \in dirs THEN
             /\ previous_dir' = current_dir
             /\ current_dir' = resolved_path
             /\ env_vars' = [env_vars EXCEPT !.PWD = resolved_path]
             /\ result' = <<>>
         ELSE
             /\ result' = <<"X", "cd: no such file or directory">>
             /\ previous_dir' = current_dir
             /\ UNCHANGED <<current_dir, env_vars>>
    /\ mainpc' = "idle" /\ outcome' = "returned"
    /\ UNCHANGED <<shell_history, master_fd, slave_fd, process,
                   original_settings, output_buffer, stop_io, io_thread,
                   cmd, inv, exit_code, cret, pend,
                   worker, intVars, term, fixedVars, fdtable, ptyq, child,
                   ki_left, int_left, cd_left, frontVars, ghostVars>>

\* _get_builtin_output(command) -> _handle_cd_command(cmd_parts)
Cd ==
    /\ mainpc = "cd"
    /\ LET new_dir == CdTarget(cmd.words)
           resolved_path == AbsPath(new_dir) IN
         IF new_dir = "" THEN
             /\ result' = <<"X", "No previous directory">>
             /\ UNCHANGED <<current_dir, previous_dir, env_vars>>
         ELSE IF resolved_path \in dirs THEN
             /\ previous_dir' = current_dir
             /\ current_dir' = resolved_path
             /\ env_vars' = [env_vars EXCEPT !.PWD = resolved_path]
             /\ result' = <<>>
         ELSE
             /\ result' = <<"X", "cd: no such file or directory">>
             /\ UNCHANGED <<current_dir, previous_dir, env_vars>>
    /\ mainpc' = "idle" /\ outcome' = "returned"
    /\ UNCHANGED <<shell_history, master_fd, slave_fd, process,
                   original_settings, output_buffer, stop_io, io_thread,
                   cmd, inv, exit_code, cret, pend,
                   worker, intVars, term, fixedVars, fdtable, ptyq, child,
                   ki_left, int_left, cd_left, frontVars, ghostVars>>

\* An exception raised in the try body of _execute_with_pty: the handler
\* "except Exception" calls _cleanup_pty
RaiseInTry ==
    /\ mainpc' = "c_stop" /\ cret' = "exc"

\* self.output_buffer.clear(); self.stop_io.clear()
Clear ==
    /\ mainpc = "clear"
    /\ output_buffer' = <<>>
    /\ stop_io' = FALSE
    /\ mainpc' = "save"
    /\ UNCHANGED <<current_dir, previous_dir, env_vars, shell_history, master_fd,
                   slave_fd, process, original_settings, io_thread,
                   cmd, inv, exit_code, result, outcome, cret, pend,
                   worker, intVars, term, fixedVars, fdtable, ptyq, child,
                   ki_left, int_left, cd_left, frontVars, ghostVars>>

\* if sys.stdin.isatty(): self.original_settings = termios.tcgetattr(...)
Save ==
    /\ mainpc = "save"
    /\ original_settings' = IF stdin_tty THEN term ELSE original_settings
    /\ mainpc' = "openpty"
    /\ UNCHANGED <<current_dir, previous_dir, env_vars, shell_history, master_fd,
                   slave_fd, process, output_buffer, stop_io, io_thread,
                   cmd, inv, exit_code, result, outcome, cret, pend,
                   worker, intVars, term, fixedVars, fdtable, ptyq, child,
                   ki_left, int_left, cd_left, frontVars, ghostVars>>

\* self.master_fd, self.slave_fd = pty.openpty(), or OSError
OpenPty ==
    /\ mainpc = "openpty"
    /\ \/ LET m == LowestFree(fdtable)
              t == [fdtable EXCEPT ![m] = inv]
              s == LowestFree(t)
          IN /\ fdtable' = [t EXCEPT ![s] = 0 - inv]
             /\ master_fd' = m /\ slave_fd' = s
             /\ mainpc' = "spawn"
             /\ UNCHANGED cret
       \/ /\ RaiseInTry
          /\ UNCHANGED <<master_fd, slave_fd, fdtable>>
    /\ UNCHANGED <<current_dir, previous_dir, env_vars, shell_history,
                   process, original_settings, output_buffer, stop_io, io_thread,
                   cmd, inv, exit_code, result, outcome, pend,
                   worker, intVars, term, fixedVars, ptyq, child,
                   ki_left, int_left, cd_left, frontVars, ghostVars>>

\* self.process = subprocess.Popen([shell, '-c', command], cwd=self.current_dir,
\* env=self.env_vars, preexec_fn=os.setsid), or the exception of a failed
\* spawn (always when the working directory does not exist)
Spawn ==
    /\ mainpc = "spawn"
    /\ \/ /\ current_dir \in dirs
          /\ child' = [child EXCEPT ![inv] =
                          [st |-> "running", code |-> 0, pos |-> 0, cmd |-> cmd,
                           cwd |-> current_dir, env |-> env_vars]]
          /\ process' = inv
          /\ mainpc' = "closeslave"
          /\ UNCHANGED cret
       \/ /\ RaiseInTry
          /\ UNCHANGED <<child, process>>
    /\ UNCHANGED <<current_dir, previous_dir, env_vars, shell_history, master_fd,
                   slave_fd, original_settings, output_buffer, stop_io, io_thread,
                   cmd, inv, exit_code, result, outcome, pend,
                   worker, intVars, term, fixedVars, fdtable, ptyq,
                   ki_left, int_left, cd_left, frontVars, ghostVars>>

\* os.close(self.slave_fd); self.slave_fd = None
CloseSlave ==
    /\ mainpc = "closeslave"
    /\ fdtable' = [fdtable EXCEPT ![slave_fd] = 0]
    /\ slave_fd' = None
    /\ mainpc' = "start"
    /\ UNCHANGED <<current_dir, previous_dir, env_vars, shell_history, master_fd,
                   process, original_settings, output_buffer, stop_io, io_thread,
                   cmd, inv, exit_code, result, outcome, cret, pend,
                   worker, intVars, term, fixedVars, ptyq, child,
                   ki_left, int_left, cd_left, frontVars, ghostVars>>

\* self.io_thread = threading.Thread(target=self._handle_pty_io); start()
Start ==
    /\ mainpc = "start"
    /\ io_thread' = inv
    /\ worker' = [worker EXCEPT ![inv].pc = "loop"]
    /\ mainpc' = "wait"
    /\ UNCHANGED <<current_dir, previous_dir, env_vars, shell_history, master_fd,
                   slave_fd, process, original_settings, output_buffer, stop_io,
                   cmd, inv, exit_code, result, outcome, cret, pend,
                   intVars, term, fixedVars, fdtable, ptyq, child,
                   ki_left, int_left, cd_left, frontVars, ghostVars>>

\* exit_code = self.process.wait(): blocks until the child has exited, reaps it
Wait ==
    /\ mainpc = "wait"
    /\ child[process].st \in {"zombie", "reaped"}
    /\ child' = [child EXCEPT ![process].st = "reaped"]
    /\ exit_code' = child[process].code
    /\ mainpc' = "stop"
    /\ UNCHANGED <<execVars, cmd, inv, result, outcome, cret, pend,
                   worker, intVars, term, fixedVars, fdtable, ptyq,
                   ki_left, int_left, cd_left, frontVars, ghostVars>>

\* self.stop_io.set()
Stop ==
    /\ mainpc = "stop"
    /\ stop_io' = TRUE
    /\ mainpc' = "join"
    /\ UNCHANGED <<current_dir, previous_dir, env_vars, shell_history, master_fd,
                   slave_fd, process, original_settings, output_buffer, io_thread,
                   cmd, inv, exit_code, result, outcome, cret, pend,
                   worker, intVars, term, fixedVars, fdtable, ptyq, child,
                   ki_left, int_left, cd_left, frontVars, ghostVars>>

\* self.io_thread.join(timeout=0.5): returns when the worker has ended or
\* when the timeout has expired, whichever comes first
JoinWorker ==
    /\ mainpc = "join"
    /\ joined' = TRUE
    /\ mainpc' = "read"
    /\ UNCHANGED <<execVars, cmd, inv, exit_code, result, outcome, cret, pend,
                   worker, intVars, term, fixedVars, fdtable, ptyq, child,
                   ki_left, int_left, cd_left, frontVars, inv_left, restored, buf_read, newlines, raw_count>>

\* captured_output = ''.join(self.output_buffer).strip() ... return; the
\* finally clause then calls _cleanup_pty
Read ==
    /\ mainpc = "read"
    /\ result' = FormatResult(CleanOutput(output_buffer), exit_code)
    /\ buf_read' = TRUE
    /\ cret' = "fin"
    /\ mainpc' = "c_stop"
    /\ UNCHANGED <<execVars, cmd, inv, exit_code, outcome, pend,
                   worker, intVars, term, fixedVars, fdtable, ptyq, child,
                   ki_left, int_left, cd_left, frontVars, inv_left, restored, joined, newlines, raw_count>>

\* ----------------------------------------------------------- _cleanup_pty
TryPcs == {"clear", "save", "openpty", "spawn", "closeslave", "start",
           "wait", "stop", "join", "read"}
CleanupPcs == {"c_stop", "c_nl", "c_restore", "c_closem", "c_closes",
               "c_term", "c_kill"}

\* the command being executed starts with tok and its shell ended with code 0
Succeeded(tok) ==
    /\ ~pend /\ buf_read /\ exit_code = 0
    /\ cmd.words # <<>> /\ cmd.words[1] = tok

\* _cleanup_pty returns to the place that called it: the handler of
\* KeyboardInterrupt or of Exception, which returns its text and so enters
\* the finally clause, or the finally clause, which ends the call
CleanupDone ==
    IF cret = "ki" THEN
        /\ mainpc' = "c_stop" /\ cret' = "fin"
        /\ result' = InterruptedText /\ UNCHANGED <<outcome, exported>>
    ELSE IF cret = "exc" THEN
        /\ mainpc' = "c_stop" /\ cret' = "fin"
        /\ result' = <<ErrorMarker>> /\ UNCHANGED <<outcome, exported>>
    ELSE
        /\ mainpc' = "idle" /\ UNCHANGED cret
        /\ result' = IF pend THEN <<>> ELSE result
        /\ outcome' = IF pend THEN "raised" ELSE "returned"
        /\ exported' = IF Succeeded("export") THEN TRUE
                       ELSE IF Succeeded("unset") THEN FALSE ELSE exported

\* self.stop_io.set()
CStop ==
    /\ mainpc = "c_stop"
    /\ stop_io' = TRUE
    /\ mainpc' = "c_nl"
    /\ UNCHANGED <<current_dir, previous_dir, env_vars, shell_history, master_fd,
                   slave_fd, process, original_settings, output_buffer, io_thread,
                   cmd, inv, exit_code, result, outcome, cret, pend,
                   worker, intVars, term, fixedVars, fdtable, ptyq, child,
                   ki_left, int_left, cd_left, frontVars, ghostVars>>

\* the last chunk of the buffer does not end with '\n'
NeedsNewline(buf) ==
    /\ buf # <<>>
    /\ LET last == buf[Len(buf)] IN last = <<>> \/ last[Len(last)] # "nl"

\* if sys.stdout.isatty(): if the buffer does not end in a newline, write one
CNewline ==
    /\ mainpc = "c_nl"
    /\ newlines' = IF stdin_tty /\ NeedsNewline(output_buffer)
                   THEN newlines + 1 ELSE newlines
    /\ mainpc' = "c_restore"
    /\ UNCHANGED <<execVars, cmd, inv, exit_code, result, outcome, cret, pend,
                   worker, intVars, term, fixedVars, fdtable, ptyq, child,
                   ki_left, int_left, cd_left, frontVars, inv_left, restored, joined, buf_read, raw_count>>

\* if self.original_settings and sys.stdin.isatty(): termios.tcsetattr(...)
CRestore ==
    /\ mainpc = "c_restore"
    /\ IF original_settings # "none" /\ stdin_tty
       THEN term' = original_settings /\ restored' = TRUE
       ELSE UNCHANGED <<term, restored>>
    /\ mainpc' = "c_closem"
    /\ UNCHANGED <<execVars, cmd, inv, exit_code, result, outcome, cret, pend,
                   worker, intVars, fixedVars, fdtable, ptyq, child,
                   ki_left, int_left, cd_left, frontVars, inv_left, joined, buf_read, newlines, raw_count>>

\* os.close(fd): closing a descriptor that is not open fails and is swallowed
CloseFd(tbl, fd) == IF fd \in FdNums THEN [tbl EXCEPT ![fd] = 0] ELSE tbl

\* if self.master_fd: os.close(self.master_fd); self.master_fd = None
CCloseMaster ==
    /\ mainpc = "c_closem"
    /\ fdtable' = IF master_fd # None THEN CloseFd(fdtable, master_fd) ELSE fdtable
    /\ master_fd' = None
    /\ mainpc' = "c_closes"
    /\ UNCHANGED <<current_dir, previous_dir, env_vars, shell_history,
                   slave_fd, process, original_settings, output_buffer, stop_io,
                   io_thread, cmd, inv, exit_code, result, outcome, cret, pend,
                   worker, intVars, term, fixedVars, ptyq, child,
                   ki_left, int_left, cd_left, frontVars, ghostVars>>

\* if self.slave_fd: os.close(self.slave_fd); self.slave_fd = None
CCloseSlave ==
    /\ mainpc = "c_closes"
    /\ fdtable' = IF slave_fd # None THEN CloseFd(fdtable, slave_fd) ELSE fdtable
    /\ slave_fd' = None
    /\ mainpc' = "c_term"
    /\ UNCHANGED <<current_dir, previous_dir, env_vars, shell_history,
                   master_fd, process, original_settings, output_buffer, stop_io,
                   io_thread, cmd, inv, exit_code, result, outcome, cret, pend,
                   worker, intVars, term, fixedVars, ptyq, child,
                   ki_left, int_left, cd_left, frontVars, ghostVars>>

\* CTerm without the SIGTERM: an alive child is killed at once
CTermKills ==
    /\ mainpc = "c_term"
    /\ child' = IF process # None /\ PollNone(process)
                THEN [child EXCEPT ![process].st = "dying",
                                   ![process].code = 0 - SIGKILL]
                ELSE IF process # None THEN PollChild(process) ELSE child
    /\ process' = None
    /\ CleanupDone
    /\ UNCHANGED <<current_dir, previous_dir, env_vars, shell_history, master_fd,
                   slave_fd, original_settings, output_buffer, stop_io, io_thread,
                   cmd, inv, exit_code, pend,
                   worker, intVars, term, stdin_tty, dirs, fault_left, reset_left,
                   fdtable, ptyq, ki_left, int_left, cd_left, frontVars, ghostVars>>

\* if self.process: if self.process.poll() is None: killpg(SIGTERM); sleep(0.1)
CTerm ==
    /\ mainpc = "c_term"
    /\ IF process # None /\ PollNone(process) THEN
           /\ child' = Signal(child, process, SIGTERM)
           /\ mainpc' = "c_kill"
           /\ UNCHANGED <<process, cret, result, outcome, exported>>
       ELSE
           /\ child' = IF process # None THEN PollChild(process) ELSE child
           /\ process' = None
           /\ CleanupDone
    /\ UNCHANGED <<current_dir, previous_dir, env_vars, shell_history, master_fd,
                   slave_fd, original_settings, output_buffer, stop_io, io_thread,
                   cmd, inv, exit_code, pend,
                   worker, intVars, term, stdin_tty, dirs, fault_left, reset_left,
                   fdtable, ptyq, ki_left, int_left, cd_left, frontVars, ghostVars>>

\* if self.process.poll() is None: killpg(SIGKILL); then self.process = None
CKill ==
    /\ mainpc = "c_kill"
    /\ child' = IF PollNone(process)
                THEN [child EXCEPT ![process].st = "dying",
                                   ![process].code = 0 - SIGKILL]
                ELSE PollChild(process)
    /\ process' = None
    /\ CleanupDone
    /\ UNCHANGED <<current_dir, previous_dir, env_vars, shell_history, master_fd,
                   slave_fd, original_settings, output_buffer, stop_io, io_thread,
                   cmd, inv, exit_code, pend,
                   worker, intVars, term, stdin_tty, dirs, fault_left, reset_left,
                   fdtable, ptyq, ki_left, int_left, cd_left, frontVars, ghostVars>>

\* ------------------------------------------------------ KeyboardInterrupt
\* A KeyboardInterrupt is raised in the invoking thread, at whatever
\* statement it is executing.

\* In execute_shell_command outside _execute_with_pty: "except Exception"
\* does not catch it, it reaches the caller
KIOuter ==
    /\ mainpc \in {"hist", "cd"}
    /\ ki_left > 0 /\ ki_left' = ki_left - 1
    /\ mainpc' = "idle" /\ outcome' = "raised" /\ result' = <<>>
    /\ UNCHANGED <<execVars, cmd, inv, exit_code, cret, pend,
                   worker, intVars, term, fixedVars, fdtable, ptyq, child,
                   int_left, cd_left, frontVars, ghostVars>>

\* In the try body of _execute_with_pty: "except KeyboardInterrupt" calls
\* _cleanup_pty. Popen.wait() first waits briefly for a child that has exited.
KITry ==
    /\ mainpc \in TryPcs
    /\ ki_left > 0 /\ ki_left' = ki_left - 1
    /\ child' = IF mainpc = "wait" /\ child[process].st = "zombie"
                THEN [child EXCEPT ![process].st = "reaped"] ELSE child
    /\ mainpc' = "c_stop" /\ cret' = "ki"
    /\ UNCHANGED <<execVars, cmd, inv, exit_code, result, outcome, pend,
                   worker, intVars, term, fixedVars, fdtable, ptyq,
                   int_left, cd_left, frontVars, ghostVars>>

\* In _cleanup_pty outside its inner try blocks: "except Exception" does not
\* catch it. Raised in a handler it passes through the finally clause, which
\* calls _cleanup_pty again; raised in the finally clause it reaches the caller
KICleanup ==
    /\ mainpc \in CleanupPcs
    /\ ki_left > 0 /\ ki_left' = ki_left - 1
    /\ IF cret \in {"ki", "exc"}
       THEN /\ mainpc' = "c_stop" /\ cret' = "fin" /\ pend' = TRUE
            /\ UNCHANGED <<result, outcome>>
       ELSE /\ mainpc' = "idle" /\ outcome' = "raised" /\ result' = <<>>
            /\ UNCHANGED <<cret, pend>>
    /\ UNCHANGED <<execVars, cmd, inv, exit_code,
                   worker, intVars, term, fixedVars, fdtable, ptyq, child,
                   int_left, cd_left, frontVars, ghostVars>>

\* In an inner try block of _cleanup_pty: its bare "except: pass" swallows the
\* KeyboardInterrupt, the statement it interrupted is not executed
KISwallowed ==
    /\ ki_left > 0 /\ ki_left' = ki_left - 1
    /\ \/ /\ mainpc = "c_nl" /\ stdin_tty
          /\ mainpc' = "c_restore"
          /\ UNCHANGED <<master_fd, slave_fd, process, cret, result, outcome,
                         exported>>
       \/ /\ mainpc = "c_restore" /\ original_settings # "none" /\ stdin_tty
          /\ mainpc' = "c_closem"
          /\ UNCHANGED <<master_fd, slave_fd, process, cret, result, outcome,
                         exported>>
       \/ /\ mainpc = "c_closem" /\ master_fd # None
          /\ master_fd' = None
          /\ mainpc' = "c_closes"
          /\ UNCHANGED <<slave_fd, process, cret, result, outcome, exported>>
       \/ /\ mainpc = "c_closes" /\ slave_fd # None
          /\ slave_fd' = None
          /\ mainpc' = "c_term"
          /\ UNCHANGED <<master_fd, process, cret, result, outcome, exported>>
       \/ /\ mainpc \in {"c_term", "c_kill"} /\ process # None
          /\ process' = None
          /\ CleanupDone
          /\ UNCHANGED <<master_fd, slave_fd>>
    /\ UNCHANGED <<current_dir, previous_dir, env_vars, shell_history,
                   original_settings, output_buffer, stop_io, io_thread,
                   cmd, inv, exit_code, pend,
                   worker, intVars, term, stdin_tty, dirs, fault_left, reset_left,
                   fdtable, ptyq, child, int_left, cd_left, frontVars, ghostVars>>

\* ------------------------------------------------ failing cleanup steps
\* The exception of a failing cleanup step reaches the caller (no such path
\* exists in _cleanup_pty; used to test the property of cleanup failures)
CFaultSurfaces ==
    /\ mainpc \in CleanupPcs \ {"c_stop"}
    /\ fault_left > 0 /\ fault_left' = fault_left - 1
    /\ mainpc' = "idle" /\ outcome' = "raised" /\ result' = <<>>
    /\ UNCHANGED <<execVars, cmd, inv, exit_code, cret, pend,
                   worker, intVars, term, stdin_tty, dirs, reset_left, exported,
                   fdtable, ptyq, child, ki_left, int_left, cd_left, frontVars, ghostVars>>

\* A system call of a cleanup step raises (OSError from os.write, os.close,
\* os.getpgid or os.killpg, termios.error from tcsetattr): the bare
\* "except: pass" around the step swallows it and cleanup goes on with the
\* next step. A failed os.close may or may not have released the descriptor.
CFault ==
    /\ fault_left > 0 /\ fault_left' = fault_left - 1
    /\ \/ /\ mainpc = "c_nl" /\ stdin_tty /\ NeedsNewline(output_buffer)
          /\ mainpc' = "c_restore"
          /\ UNCHANGED <<master_fd, slave_fd, process, fdtable,
                         cret, result, outcome, exported>>
       \/ /\ mainpc = "c_restore" /\ original_settings # "none" /\ stdin_tty
          /\ mainpc' = "c_closem"
          /\ UNCHANGED <<master_fd, slave_fd, process, fdtable,
                         cret, result, outcome, exported>>
       \/ /\ mainpc = "c_closem" /\ master_fd # None
          /\ fdtable' \in {fdtable, CloseFd(fdtable, master_fd)}
          /\ master_fd' = None
          /\ mainpc' = "c_closes"
          /\ UNCHANGED <<slave_fd, process, cret, result, outcome, exported>>
       \/ /\ mainpc = "c_closes" /\ slave_fd # None
          /\ fdtable' \in {fdtable, CloseFd(fdtable, slave_fd)}
          /\ slave_fd' = None
          /\ mainpc' = "c_term"
          /\ UNCHANGED <<master_fd, process, cret, result, outcome, exported>>
       \/ /\ mainpc \in {"c_term", "c_kill"}
          /\ process # None /\ PollNone(process)
          /\ process' = None
          /\ CleanupDone
          /\ UNCHANGED <<master_fd, slave_fd, fdtable>>
    /\ UNCHANGED <<current_dir, previous_dir, env_vars, shell_history,
                   original_settings, output_buffer, stop_io, io_thread,
                   cmd, inv, exit_code, pend,
                   worker, intVars, term, stdin_tty, dirs, reset_left,
                   ptyq, child, ki_left, int_left, cd_left, frontVars, ghostVars>>

\* ------------------------------------------------------------ reset_state
\* reset_state keeps the history
ResetStateKeepsHistory ==
    /\ mainpc = "idle"
    /\ reset_left > 0 /\ reset_left' = reset_left - 1
    /\ current_dir' = StartDir
    /\ env_vars' = OsEnviron
    /\ output_buffer' = <<>>
    /\ exported' = FALSE
    /\ UNCHANGED <<shell_history, previous_dir, master_fd, slave_fd, process,
                   original_settings, stop_io, io_thread, mainVars, worker,
                   intVars, term, stdin_tty, dirs, fault_left, fdtable, ptyq,
                   child, ki_left, int_left, cd_left, frontVars, ghostVars>>

\* reset_state(), called between two commands: current_dir = os.getcwd()
\* (the process never changes its directory), env_vars = os.environ.copy(),
\* shell_history = [], output_buffer = []
ResetState ==
    /\ mainpc = "idle"
    /\ reset_left > 0 /\ reset_left' = reset_left - 1
    /\ current_dir' = StartDir
    /\ env_vars' = OsEnviron
    /\ shell_history' = <<>>
    /\ output_buffer' = <<>>
    /\ exported' = FALSE
    /\ UNCHANGED <<previous_dir, master_fd, slave_fd, process,
                   original_settings, stop_io, io_thread, mainVars, worker,
                   intVars, term, stdin_tty, dirs, fault_left, fdtable, ptyq,
                   child, ki_left, int_left, cd_left, frontVars, ghostVars>>

\* the steps of execute_shell_command after the call
ExecStep ==
    \/ Hist \/ Clear \/ Save \/ OpenPty \/ Spawn \/ CloseSlave \/ Start
    \/ Wait \/ Stop \/ JoinWorker \/ Read
    \/ CStop \/ CNewline \/ CRestore \/ CCloseMaster \/ CCloseSlave
    \/ CTerm \/ CKill
    \/ KIOuter \/ KITry \/ KICleanup \/ KISwallowed

MainStep ==
    \/ \E c \in PtyCommands : Call(c)
    \/ ExecStep

\* the invoking thread in a session of cd and session commands
SessionStep ==
    \/ \E c \in CdCommands \cup SessionCommands \cup PtyCommands : Call(c)
    \/ Cd
    \/ ExecStep

\* ------------------------------------------------- _handle_pty_io (pump)
STDIN == 0

\* while not self.stop_io.is_set() and self.process and self.process.poll() is None
WLoop(k) ==
    /\ worker[k].pc = "loop"
    /\ LET go == ~stop_io /\ process # None /\ PollNone(process) IN
         /\ worker' = [worker EXCEPT ![k].pc = IF go THEN "select" ELSE "fin"]
         /\ child' = IF ~stop_io /\ process # None THEN PollChild(process) ELSE child
    /\ UNCHANGED <<execVars, mainVars, intVars, term, fixedVars, fdtable, ptyq,
                   ki_left, int_left, cd_left, frontVars, ghostVars>>

\* os.read(fd) of a PTY master would not block
MasterReadable(fd) ==
    /\ fd \in FdNums /\ fdtable[fd] > 0
    /\ ptyq[fdtable[fd]] # <<>> \/ Hangup(fdtable[fd])

\* ready_fds, _, _ = select.select([self.master_fd (, sys.stdin)], [], [], 0.1)
\* A master_fd of None or a closed descriptor makes select raise, which ends
\* the loop; keys waiting on the real terminal make stdin ready.
WSelect(k) ==
    /\ worker[k].pc = "select"
    /\ IF master_fd = None \/ fdtable[master_fd] = 0 THEN
           worker' = [worker EXCEPT ![k].pc = "fin"]
       ELSE
           \E keys \in (IF stdin_tty THEN {<<>>, <<STDIN>>} ELSE {<<>>}) :
             LET rdy == (IF MasterReadable(master_fd) THEN <<master_fd>> ELSE <<>>)
                        \o keys
             IN worker' = [worker EXCEPT ![k].ready = rdy,
                                         ![k].pc = IF rdy = <<>> THEN "loop" ELSE "for"]
    /\ UNCHANGED <<execVars, mainVars, intVars, term, fixedVars, fdtable, ptyq,
                   child, ki_left, int_left, cd_left, frontVars, ghostVars>>

\* for fd in ready_fds: the loop is over
WForEnd(k) ==
    /\ worker[k].pc = "for"
    /\ worker[k].ready = <<>>
    /\ worker' = [worker EXCEPT ![k].pc = "loop"]
    /\ UNCHANGED <<execVars, mainVars, intVars, term, fixedVars, fdtable, ptyq,
                   child, ki_left, int_left, cd_left, frontVars, ghostVars>>

\* fd == sys.stdin: data = os.read(stdin); if data and self.master_fd: os.write(...)
\* A write to a descriptor that is closed raises OSError: the break of the
\* handler leaves the for loop, and the while loop tests its condition again.
WStdin(k) ==
    /\ worker[k].pc = "for"
    /\ worker[k].ready # <<>>
    /\ Head(worker[k].ready) = STDIN
    /\ worker' = IF master_fd # None /\ fdtable[master_fd] = 0
                 THEN [worker EXCEPT ![k].ready = <<>>, ![k].pc = "loop"]
                 ELSE [worker EXCEPT ![k].ready = Tail(@)]
    /\ UNCHANGED <<execVars, mainVars, intVars, term, fixedVars, fdtable, ptyq,
                   child, ki_left, int_left, cd_left, frontVars, ghostVars>>

\* elif fd == self.master_fd: data = os.read(self.master_fd, 4096)
\* Blocks while the PTY has no data and its slave end is still open. The
\* break after a read of no bytes and the break of the OSError handler leave
\* the for loop only: the while loop tests its condition again.
WMaster(k) ==
    /\ worker[k].pc = "for"
    /\ worker[k].ready # <<>>
    /\ Head(worker[k].ready) # STDIN
    /\ Head(worker[k].ready) = master_fd
    /\ LET q == fdtable[master_fd] IN
         IF q <= 0 THEN
             \* the descriptor is closed: OSError
             /\ worker' = [worker EXCEPT ![k].ready = <<>>, ![k].pc = "loop"]
             /\ UNCHANGED ptyq
         ELSE IF ptyq[q] # <<>> THEN
             LET d == Head(ptyq[q]) IN
             /\ ptyq' = [ptyq EXCEPT ![q] = Tail(@)]
             /\ worker' = [worker EXCEPT
                   ![k].ready = Tail(@),
                   ![k].data = d,
                   ![k].pc = IF ~worker[k].raw_mode_set /\ stdin_tty /\ HasTrigger(d)
                             THEN "raw" ELSE "append"]
         ELSE
             \* no bytes, or EIO: EOF from the process
             /\ Hangup(q)
             /\ worker' = [worker EXCEPT ![k].ready = <<>>, ![k].pc = "loop"]
             /\ UNCHANGED ptyq
    /\ UNCHANGED <<execVars, mainVars, intVars, term, fixedVars, fdtable,
                   child, ki_left, int_left, cd_left, frontVars, ghostVars>>

\* a descriptor in ready_fds that is neither stdin nor self.master_fd
WSkip(k) ==
    /\ worker[k].pc = "for"
    /\ worker[k].ready # <<>>
    /\ Head(worker[k].ready) # STDIN
    /\ Head(worker[k].ready) # master_fd
    /\ worker' = [worker EXCEPT ![k].ready = Tail(@)]
    /\ UNCHANGED <<execVars, mainVars, intVars, term, fixedVars, fdtable, ptyq,
                   child, ki_left, int_left, cd_left, frontVars, ghostVars>>

\* tty.setraw(sys.stdin.fileno()); raw_mode_set = True
WRaw(k) ==
    /\ worker[k].pc = "raw"
    /\ term' = "raw"
    /\ worker' = [worker EXCEPT ![k].raw_mode_set = TRUE, ![k].pc = "append"]
    /\ raw_count' = IF raw_count < 2 THEN raw_count + 1 ELSE raw_count
    /\ UNCHANGED <<execVars, mainVars, intVars, fixedVars, fdtable, ptyq,
                   child, ki_left, int_left, cd_left, frontVars,
                   inv_left, restored, joined, buf_read, newlines>>

\* self.output_buffer.append(text)
WAppend(k) ==
    /\ worker[k].pc = "append"
    /\ output_buffer' = Append(output_buffer, worker[k].data)
    /\ worker' = [worker EXCEPT ![k].data = <<>>, ![k].pc = "for"]
    /\ UNCHANGED <<current_dir, previous_dir, env_vars, shell_history, master_fd,
                   slave_fd, process, original_settings, stop_io, io_thread,
                   mainVars, intVars, term, fixedVars, fdtable, ptyq,
                   child, ki_left, int_left, cd_left, frontVars, ghostVars>>

\* finally: if raw_mode_set and self.original_settings and sys.stdin.isatty():
\*              termios.tcsetattr(..., self.original_settings)
WFin(k) ==
    /\ worker[k].pc = "fin"
    /\ term' = IF worker[k].raw_mode_set /\ original_settings # "none" /\ stdin_tty
               THEN original_settings ELSE term
    /\ worker' = [worker EXCEPT ![k] = [NewWorker EXCEPT !.pc = "done"]]
    /\ UNCHANGED <<execVars, mainVars, intVars, fixedVars, fdtable, ptyq,
                   child, ki_left, int_left, cd_left, frontVars, ghostVars>>

WorkerStep(k) ==
    \/ WLoop(k) \/ WSelect(k) \/ WForEnd(k) \/ WStdin(k) \/ WMaster(k)
    \/ WSkip(k) \/ WRaw(k) \/ WAppend(k) \/ WFin(k)

\* ---------------------------------------------- interrupt_current_command
\* Another thread calls interrupt_current_command()
IntCall ==
    /\ intpc = "idle"
    /\ int_left > 0 /\ int_left' = int_left - 1
    /\ intpc' = "check"
    /\ int_pid' = None /\ int_result' = FALSE /\ int_sig' = 0
    /\ UNCHANGED <<execVars, mainVars, worker, term, fixedVars, fdtable, ptyq,
                   child, ki_left, cd_left, frontVars, ghostVars>>

\* if self.process and self.process.poll() is None:   (else: return False)
IntCheck ==
    /\ intpc = "check"
    /\ intpc' = IF process # None /\ PollNone(process) THEN "pid" ELSE "idle"
    /\ child' = IF process # None THEN PollChild(process) ELSE child
    /\ UNCHANGED <<execVars, mainVars, worker, int_pid, int_result, int_sig,
                   term, fixedVars, fdtable, ptyq, ki_left, int_left, cd_left, frontVars,
                   ghostVars>>

\* self.process.pid: AttributeError when the handle has been cleared, which
\* the bare except swallows (return False)
IntPid ==
    /\ intpc = "pid"
    /\ int_pid' = process
    /\ intpc' = IF process # None THEN "kill" ELSE "idle"
    /\ UNCHANGED <<execVars, mainVars, worker, int_result, int_sig,
                   term, fixedVars, fdtable, ptyq, child, ki_left, int_left,
                   cd_left, frontVars, ghostVars>>

\* a wrong signal: the child is killed instead of interrupted
InterruptSignalKill == SIGKILL

\* the signal interrupt_current_command sends
InterruptSignal == SIGINT

\* os.killpg(os.getpgid(pid), signal.SIGINT); return True
\* getpgid raises ProcessLookupError for a reaped child (return False)
IntKill ==
    /\ intpc = "kill"
    /\ IF PidExists(int_pid)
       THEN /\ child' = Signal(child, int_pid, InterruptSignal)
            /\ int_sig' = InterruptSignal
            /\ int_result' = TRUE
       ELSE UNCHANGED <<child, int_sig, int_result>>
    /\ intpc' = "idle"
    /\ UNCHANGED <<execVars, mainVars, worker, int_pid,
                   term, fixedVars, fdtable, ptyq, ki_left, int_left, cd_left, frontVars,
                   ghostVars>>

IntStep == IntCall \/ IntCheck \/ IntPid \/ IntKill

ChildStep(k) == ChildWrite(k) \/ ChildExit(k) \/ ChildDie(k)

\* PTY executions, one after the other, and KeyboardInterrupts
Init ==
    /\ InitExecutor
    /\ inv_left = MaxInv /\ ki_left = MaxKI /\ int_left = 0 /\ cd_left = 0
    /\ fault_left = 0 /\ reset_left = 0

Next ==
    \/ MainStep
    \/ \E k \in Inv : WorkerStep(k)
    \/ \E k \in Inv : ChildStep(k)

Spec == Init /\ [][Next]_vars

\* The same with a second thread that calls interrupt_current_command
InitInterrupt ==
    /\ InitExecutor
    /\ inv_left = IntMaxInv /\ ki_left = MaxKI /\ int_left = MaxInt /\ cd_left = 0
    /\ fault_left = 0 /\ reset_left = 0

NextInterrupt == Next \/ IntStep

SpecInterrupt == InitInterrupt /\ [][NextInterrupt]_vars

\* One PTY execution in which steps of _cleanup_pty fail
InitFaults ==
    /\ InitExecutor
    /\ inv_left = FaultMaxInv /\ ki_left = MaxKI /\ int_left = 0 /\ cd_left = 0
    /\ fault_left = MaxFault /\ reset_left = 0

NextFaults == Next \/ CFault

SpecFaults == InitFaults /\ [][NextFaults]_vars

\* A session: cd, pwd, export, unset, rmdir and reset_state
InitSession ==
    /\ InitExecutor
    /\ inv_left = SessMaxInv /\ ki_left = MaxKI /\ int_left = 0
    /\ cd_left = SessMaxCd /\ fault_left = 0 /\ reset_left = MaxReset

NextSession ==
    \/ SessionStep
    \/ ResetState
    \/ \E k \in Inv : WorkerStep(k)
    \/ \E k \in Inv : ChildStep(k)

SpecSession == InitSession /\ [][NextSession]_vars

\* cd commands and reset_state only
InitCd ==
    /\ InitExecutor
    /\ inv_left = 0 /\ ki_left = 0 /\ int_left = 0
    /\ cd_left = MaxCd /\ fault_left = 0 /\ reset_left = MaxReset

NextCd ==
    \/ \E c \in CdCommands : Call(c)
    \/ Hist
    \/ Cd
    \/ ResetState

SpecCd == InitCd /\ [][NextCd]_vars

\* Commands that change the environment in a shell, one after the other
EnvCommands ==
    {c \in SessionCommands \cup PtyCommands :
        c.words[1] \in {"export", "unset", "pwd", "vi"}}

InitEnv ==
    /\ InitExecutor
    /\ inv_left = EnvMaxInv /\ ki_left = MaxKI /\ int_left = 0
    /\ cd_left = 0 /\ fault_left = 0 /\ reset_left = 0

NextEnv ==
    \/ \E c \in EnvCommands : Call(c)
    \/ ExecStep
    \/ \E k \in Inv : WorkerStep(k)
    \/ \E k \in Inv : ChildStep(k)

SpecEnv == InitEnv /\ [][NextEnv]_vars

\* Result formatting: the invoking thread is at the statement that reads the
\* capture buffer (line 129), after wait() returned exit_code and the worker
\* was joined; the buffer holds any chunks, the child ended with any code.
FmtTokens == {"h", "nl", "sgr"}
FmtChunks == UNION {[1..n -> FmtTokens] : n \in 0..FmtMaxLen}
FmtBuffers == UNION {[1..n -> FmtChunks] : n \in 0..FmtMaxChunks}
FmtExitCodes == {0, 3, 0 - SIGINT, 0 - SIGKILL}
FmtCommand == [kind |-> "pty", arg |-> "sh", words |-> <<"sh">>,
               out |-> <<>>, code |-> 0,
               stay |-> FALSE, ignInt |-> FALSE, ignTerm |-> FALSE]

InitFormat ==
    /\ current_dir = StartDir /\ previous_dir = "unset"
    /\ env_vars = OsEnviron
    /\ shell_history = <<FmtCommand.arg>>
    /\ master_fd = 3 /\ slave_fd = None /\ process = 1
    /\ stdin_tty \in BOOLEAN
    /\ original_settings = IF stdin_tty THEN "cooked" ELSE "none"
    /\ output_buffer \in FmtBuffers
    /\ stop_io = TRUE /\ io_thread = 1
    /\ mainpc = "read" /\ cmd = FmtCommand /\ inv = 1
    /\ exit_code \in FmtExitCodes
    /\ result = <<>> /\ outcome = "none" /\ cret = "fin" /\ pend = FALSE
    /\ worker = [k \in Inv |-> IF k = 1 THEN [NewWorker EXCEPT !.pc = "done"]
                                ELSE NewWorker]
    /\ intpc = "idle" /\ int_pid = None /\ int_result = FALSE /\ int_sig = 0
    /\ term = "cooked"
    /\ fdtable = [n \in FdNums |-> IF n = 3 THEN 1 ELSE 0]
    /\ ptyq = [k \in Inv |-> <<>>]
    /\ child = [k \in Inv |-> IF k = 1
                   THEN [NoChild EXCEPT !.st = "reaped", !.code = exit_code]
                   ELSE NoChild]
    /\ dirs = Dirs /\ exported = FALSE
    /\ inv_left = 0 /\ ki_left = 0 /\ int_left = 0 /\ cd_left = 0
    /\ fault_left = 0 /\ reset_left = 0
    /\ restored = FALSE /\ joined = TRUE /\ buf_read = FALSE /\ newlines = 0
    /\ raw_count = 0
    /\ FrontIdle

NextFormat == Read

SpecFormat == InitFormat /\ [][NextFormat]_vars

TypeOK ==
    /\ mainpc \in {"idle", "hist", "cd"} \cup TryPcs \cup CleanupPcs
    /\ master_fd \in FdNums \cup {None} /\ slave_fd \in FdNums \cup {None}
    /\ process \in Inv \cup {None}
    /\ term \in {"cooked", "raw"}
    /\ original_settings \in {"none", "cooked", "raw"}
    /\ outcome \in {"none", "returned", "raised"}

\* ------------------------------------------------------------------ claims
\* A call of execute_shell_command for a PTY command has returned a value
PtyReturned == mainpc = "idle" /\ outcome = "returned" /\ cmd.kind = "pty"

FdsReleased ==
    /\ master_fd = None /\ slave_fd = None
    /\ \A n \in FdNums : fdtable[n] \notin {inv, 0 - inv}

TerminalRestored ==
    (stdin_tty /\ original_settings # "none") => term = original_settings

ChildReaped == child[inv].st \in {"none", "reaped"}

\* C1: when a PTY execution returns, on whatever exit path, the master and
\* slave descriptors are closed and the fields are None, the terminal has the
\* attributes that were saved, and the child is no longer alive and is reaped.
C1_ResourcesReleased ==
    PtyReturned => FdsReleased /\ TerminalRestored /\ ChildReaped

\* The call went through the normal path: it built its result from the buffer
NormalReturn ==
    PtyReturned /\ buf_read /\ result \notin {InterruptedText, <<ErrorMarker>>}

\* C2: a command that writes its output and exits with code 0 returns exactly
\* the text it wrote, ANSI sequences and surrounding white space removed;
\* nothing the child wrote before it exited is missing.
C2_OutputComplete ==
    (NormalReturn /\ exit_code = 0) => result = CleanOutput(cmd.out)

\* C3: the invoking thread reads the capture buffer to build the result only
\* after the pump worker has ended: no chunk is appended to the buffer at or
\* after the moment the invoking thread has read it.
C3_NoAppendAfterRead ==
    [][Len(output_buffer') > Len(output_buffer) => ~buf_read]_vars

\* a pump worker calls tty.setraw
RawSwitch == \E k \in Inv : worker[k].pc = "raw" /\ worker'[k].pc = "append"

\* C4: within one invocation the terminal is switched to raw mode at most
\* once, and never after cleanup has restored the saved attributes.
C4_RawOnceAndReverted ==
    [][RawSwitch => (raw_count = 0 /\ ~restored)]_vars

\* _cleanup_pty restores the terminal attributes (tcsetattr is called)
CleanupRestores == mainpc = "c_restore" /\ mainpc' = "c_closem" /\ restored'

\* _cleanup_pty closes the master descriptor
CleanupClosesMaster ==
    mainpc = "c_closem" /\ master_fd # None /\ fdtable'[master_fd] = 0

\* C5: on every exit path cleanup first signals the stop flag and joins the
\* I/O worker, and only then restores the terminal and closes the master.
C5_CleanupOrder ==
    [][(CleanupRestores \/ CleanupClosesMaster) =>
          (stop_io /\ (worker[inv].pc # "new" => joined))]_vars

\* worker k, in the body of its while loop, reads from a PTY master, appends
\* to the capture buffer or changes the terminal attributes
LoopBodyStep(k) ==
    /\ worker[k].pc \in {"for", "raw", "append"} /\ worker'[k] # worker[k]
    /\ ptyq' # ptyq \/ output_buffer' # output_buffer \/ term' # term

\* C6: at most one pump worker is active: a worker started by an earlier
\* invocation never runs its loop body during a later invocation.
C6_OneWorker ==
    [][\A k \in Inv : (LoopBodyStep(k) /\ mainpc # "idle") => k = inv]_vars

\* interrupt_current_command returns
IntReturns == intpc # "idle" /\ intpc' = "idle"
\* no child receives a fatal signal in this step
NoSignalEffect == \A k \in Inv : child'[k].st = "dying" => child[k].st = "dying"

C8_InterruptLeavesCooked ==
    (PtyReturned /\ int_result /\ int_pid = inv) => term # "raw"

\* C9: interrupt_current_command changes no executor field, and it never
\* signals a process after cleanup has cleared the process handle.
C9_InterruptOnlySignals ==
    [][intpc' # intpc =>
         /\ UNCHANGED execVars
         /\ (int_sig' = SIGINT /\ int_sig = 0) => process = int_pid]_vars

\* C10: execute_shell_command never raises to its caller; every fault and
\* every KeyboardInterrupt is returned as text.
C10_NeverRaises == outcome # "raised"

\* a step of _cleanup_pty fails in this step
CleanupStepFails == fault_left' < fault_left

\* the step of _cleanup_pty that follows the one at pc
AfterCleanupStep(pc) ==
    IF pc = "c_nl" THEN {"c_restore"}
    ELSE IF pc = "c_restore" THEN {"c_closem"}
    ELSE IF pc = "c_closem" THEN {"c_closes"}
    ELSE IF pc = "c_closes" THEN {"c_term"}
    ELSE IF cret = "fin" THEN {"idle"} ELSE {"c_stop"}

\* C11: a failing cleanup step (write of the newline, tcsetattr, os.close,
\* killpg) never surfaces to the caller and never replaces the result: the
\* failing step leaves the result as the successful step would, cleanup goes
\* on with the next step, and a call that returns has cleared master_fd,
\* slave_fd and the process handle.
C11_CleanupFailureSwallowed ==
    [][CleanupStepFails =>
         /\ mainpc \in CleanupPcs /\ mainpc' \in AfterCleanupStep(mainpc)
         /\ ~pend => outcome' # "raised"
         /\ (mainpc' # "c_stop" /\ ~pend) => result' = result
         /\ (mainpc' = "c_stop" /\ cret = "ki") => result' = InterruptedText
         /\ (mainpc' = "c_stop" /\ cret = "exc") => result' = <<ErrorMarker>>
         /\ mainpc' = "c_closes" => master_fd' = None
         /\ mainpc' = "c_term" => slave_fd' = None
         /\ mainpc' \in {"idle", "c_stop"} => process' = None
         /\ mainpc' = "idle" =>
               (master_fd' = None /\ slave_fd' = None /\ process' = None)
      ]_vars

\* a cleanup step failed and the call returned the formatted output
C11_Witness ==
    /\ PtyReturned /\ fault_left < MaxFault /\ buf_read
    /\ result = FormatResult(CleanOutput(cmd.out), cmd.code) /\ result # <<>>

\* the normal path of _execute_with_pty builds its return value
BuildsResult == mainpc = "read" /\ mainpc' = "c_stop"

\* C12: with T the cleaned captured text and n the exit code, the result is
\* T when n = 0 (possibly empty); T, a newline and the marker "Command exited
\* with code n" when n # 0 and T is not empty; the marker alone when n # 0
\* and T is empty.
C12_ResultFormat ==
    [][BuildsResult =>
         LET T == CleanOutput(output_buffer)
             marker == "X Command exited with code " \o CodeStr(exit_code)
         IN /\ exit_code = 0 => result' = T
            /\ (exit_code # 0 /\ T # <<>>) => result' = T \o <<"nl">> \o <<marker>>
            /\ (exit_code # 0 /\ T = <<>>) => result' = <<marker>>
      ]_vars

\* a failed command with output: text, newline, marker
C12_Witness ==
    /\ mainpc = "c_stop" /\ buf_read /\ exit_code = 3
    /\ CleanOutput(output_buffer) = <<"h", "nl", "h">>
    /\ result = <<"h", "nl", "h", "nl", "X Command exited with code 3">>
\* ------------------------------------------------------------ session state
\* the first token of the command being executed
FirstToken == IF cmd.words = <<>> THEN "" ELSE cmd.words[1]

\* pty.openpty() has returned a pair to this execution
AllocatesPty == master_fd' # master_fd /\ master_fd' # None

\* subprocess.Popen has started a child for this execution
SpawnsChild == process' # process /\ process' # None

\* C13: a command whose first token is cd, pwd, export or unset is handled
\* in-process: no PTY is allocated and no child is spawned for it.
C13_BuiltinsInProcess ==
    [][(AllocatesPty \/ SpawnsChild) =>
           FirstToken \notin {"cd", "pwd", "export", "unset"}]_vars

\* _handle_cd_command returns
CdStep == mainpc = "cd" /\ mainpc' = "idle" /\ outcome' = "returned"

\* the directory cd tries to enter does not exist, or `cd -` has no
\* previous directory
CdFails ==
    /\ CdStep
    /\ \/ CdTarget(cmd.words) = ""
       \/ AbsPath(CdTarget(cmd.words)) \notin dirs

\* C14: a failed cd returns a string starting with the cross mark and
\* leaves current_dir, previous_dir and the env map as they were.
C14_FailedCdNoEffect ==
    [][CdFails =>
         /\ result' # <<>> /\ Head(result') = "X"
         /\ UNCHANGED <<current_dir, previous_dir, env_vars>>]_vars

\* a cd has failed after an earlier one had succeeded
C14_Witness ==
    /\ mainpc = "idle" /\ cmd.kind = "cd" /\ outcome = "returned"
    /\ result # <<>> /\ Head(result) = "X"
    /\ previous_dir # "unset" /\ current_dir # StartDir

\* the last n commands of the history
LastCommands(n) ==
    IF Len(shell_history) < n THEN <<>>
    ELSE SubSeq(shell_history, Len(shell_history) - n + 1, Len(shell_history))

\* the builtin has returned and no other command has been issued since
CdReturned == mainpc = "idle" /\ cmd.kind = "cd" /\ outcome = "returned"

\* `cd /tmp` and then `cd -` twice end where `cd /tmp` ended
TwoBackSame ==
    (CdReturned /\ LastCommands(3) = <<"cd /tmp", "cd -", "cd -">>)
        => current_dir = "/tmp"

\* C15: a successful `cd X` issued in D leaves previous_dir = D and
\* current_dir = X; `cd -` with a recorded, existing previous directory
\* exchanges the two, so two `cd -` in a row leave current_dir unchanged.
C15_CdRecordsPrevious ==
    /\ []TwoBackSame
    /\ [][CdStep =>
            /\ (Len(cmd.words) = 2 /\ cmd.words[2] \in dirs) =>
                  (previous_dir' = current_dir /\ current_dir' = cmd.words[2])
            /\ (cmd.words = <<"cd", "-">> /\ previous_dir \in dirs) =>
                  (current_dir' = previous_dir /\ previous_dir' = current_dir)]_vars

\* `cd /tmp` in the start directory, then `cd -` twice
C15_Witness ==
    /\ CdReturned /\ shell_history = <<"cd /tmp", "cd -", "cd -">>
    /\ current_dir = "/tmp" /\ previous_dir = StartDir

C17_ChildSeesSession ==
    [][SpawnsChild =>
         /\ child'[process'].cwd = current_dir
         /\ child'[process'].env = env_vars
         /\ exported => "K" \in DOMAIN child'[process'].env]_vars

\* C18: once `export K=V` has returned successfully (and K has not been
\* unset since) the env map has K with value V; os.environ is not written.
C18_ExportSetsEnv ==
    (mainpc = "idle" /\ exported) =>
        ("K" \in DOMAIN env_vars /\ env_vars["K"] = "V")

\* reset_state() is called
ResetStep == reset_left' < reset_left

\* execute_shell_command returns the result of a PTY execution
PtyReturns ==
    mainpc # "idle" /\ mainpc' = "idle" /\ outcome' = "returned" /\ cmd.kind = "pty"

\* C19: current_dir, previous_dir and the env map are changed only by the cd
\* builtin and by reset_state, never by a step of the PTY path, of the I/O
\* thread or of a child; the history changes only by one append of the
\* command string per call, or by reset_state, and a PTY execution returns
\* with its command string as the last entry.
C19_PtyPathFrame ==
    [][/\ (<<current_dir, previous_dir, env_vars>>' # <<current_dir, previous_dir, env_vars>>)
            => (CdStep \/ ResetStep)
       /\ (shell_history' # shell_history)
            => \/ ResetStep /\ shell_history' = <<>>
               \/ /\ mainpc = "hist" /\ mainpc' # "hist"
                  /\ shell_history' = Append(shell_history, cmd.arg)
       /\ (mainpc' = "hist" /\ mainpc # "hist") => mainpc = "idle"
       /\ PtyReturns =>
             (shell_history # <<>> /\ shell_history[Len(shell_history)] = cmd.arg)]_vars

\* a PTY command has returned a non-zero exit code after a cd, and the
\* history holds both commands in the order issued
C19_Witness ==
    /\ mainpc = "idle" /\ cmd.kind = "pty" /\ outcome = "returned"
    /\ exit_code # 0
    /\ current_dir = "/tmp" /\ previous_dir = StartDir
    /\ shell_history = <<"cd /tmp", cmd.arg>>

\* C20: reset_state() leaves current_dir equal to the directory the
\* process was started in, the env map equal to the process environment,
\* and the history empty, whatever commands preceded it.
C20_ResetRestores ==
    [][ResetStep =>
         /\ current_dir' = StartDir
         /\ env_vars' = OsEnviron
         /\ shell_history' = <<>>]_vars

\* reset_state has been called after a cd out of the start directory and a
\* PTY execution
C20_Witness ==
    /\ mainpc = "idle" /\ reset_left < MaxReset
    /\ inv > 0 /\ ki_left = MaxKI
    /\ previous_dir = StartDir
    /\ shell_history = <<>> /\ current_dir = StartDir /\ env_vars = OsEnviron

\* ============================================================ classifier
\* A text is a sequence of atoms: a word, or one of the characters below.
SP == " "
SQ == "'"
DQ == "\""
BS == "\\"
QM == "?"

\* The words of the texts; "./run" is a word with a slash in it
WordAtoms ==
    {"ls", "echo", "jq", "./run", "what", "the", "file", "HTTP", "http",
     "requests", "to", "fix"}

\* str.lower()
Lower(a) == IF a = "HTTP" THEN "http" ELSE a
LowerText(t) == [i \in DOMAIN t |-> Lower(t[i])]

RECURSIVE TextLStrip(_)
TextLStrip(t) ==
    IF t # <<>> /\ Head(t) = SP THEN TextLStrip(Tail(t)) ELSE t

RECURSIVE TextRStrip(_)
TextRStrip(t) ==
    IF t # <<>> /\ t[Len(t)] = SP THEN TextRStrip(SubSeq(t, 1, Len(t) - 1)) ELSE t

\* str.strip()
TextStrip(t) == TextRStrip(TextLStrip(t))

\* str.startswith(prefix)
StartsWith(t, prefix) ==
    Len(t) >= Len(prefix) /\ SubSeq(t, 1, Len(prefix)) = prefix

RECURSIVE SplitFrom(_, _, _)
\* str.split(): the maximal runs without white space
SplitFrom(t, cur, acc) ==
    IF t = <<>> THEN (IF cur = <<>> THEN acc ELSE Append(acc, cur))
    ELSE IF Head(t) = SP
         THEN SplitFrom(Tail(t), <<>>, IF cur = <<>> THEN acc ELSE Append(acc, cur))
    ELSE SplitFrom(Tail(t), Append(cur, Head(t)), acc)

SplitWords(t) == SplitFrom(t, <<>>, <<>>)

RECURSIVE JoinSp(_)
\* " ".join(words)
JoinSp(words) ==
    IF words = <<>> THEN <<>>
    ELSE IF Len(words) = 1 THEN words[1]
    ELSE words[1] \o <<SP>> \o JoinSp(Tail(words))

\* only the question words are looked at, not a final "?"
IsObviousNoQuestionMark(text) ==
    LET text_lower == TextStrip(LowerText(text)) IN
        StartsWith(text_lower, <<"what", SP>>)

\* _is_obvious_natural_language: ends in "?", or starts with a question word
\* (of the startswith tuples, "what " is the one in the texts)
IsObviousNaturalLanguage(text) ==
    LET text_lower == TextStrip(LowerText(text)) IN
        \/ (text_lower # <<>> /\ text_lower[Len(text_lower)] = QM)
        \/ StartsWith(text_lower, <<"what", SP>>)

RECURSIVE ShlexScan(_, _, _, _, _)
\* shlex.split(user_input), POSIX rules with whitespace_split: mode is "out",
\* "sq" inside '...', "dq" inside "..."; started: a token is being read.
\* err stands for ValueError (no closing quotation, no escaped character).
ShlexScan(t, mode, cur, started, acc) ==
    IF t = <<>> THEN
        IF mode # "out" THEN [err |-> TRUE, tokens |-> <<>>]
        ELSE [err |-> FALSE, tokens |-> IF started THEN Append(acc, cur) ELSE acc]
    ELSE LET c == Head(t) rest == Tail(t) IN
        IF mode = "sq" THEN
            IF c = SQ THEN ShlexScan(rest, "out", cur, TRUE, acc)
            ELSE ShlexScan(rest, "sq", Append(cur, c), TRUE, acc)
        ELSE IF mode = "dq" THEN
            IF c = DQ THEN ShlexScan(rest, "out", cur, TRUE, acc)
            ELSE IF c = BS THEN
                IF rest = <<>> THEN [err |-> TRUE, tokens |-> <<>>]
                ELSE IF Head(rest) \in {DQ, BS}
                     THEN ShlexScan(Tail(rest), "dq", Append(cur, Head(rest)), TRUE, acc)
                ELSE ShlexScan(Tail(rest), "dq", cur \o <<BS, Head(rest)>>, TRUE, acc)
            ELSE ShlexScan(rest, "dq", Append(cur, c), TRUE, acc)
        ELSE
            IF c = SP THEN
                ShlexScan(rest, "out", <<>>, FALSE,
                          IF started THEN Append(acc, cur) ELSE acc)
            ELSE IF c = SQ THEN ShlexScan(rest, "sq", cur, TRUE, acc)
            ELSE IF c = DQ THEN ShlexScan(rest, "dq", cur, TRUE, acc)
            ELSE IF c = BS THEN
                IF rest = <<>> THEN [err |-> TRUE, tokens |-> <<>>]
                ELSE ShlexScan(Tail(rest), "out", Append(cur, Head(rest)), TRUE, acc)
            ELSE ShlexScan(rest, "out", Append(cur, c), TRUE, acc)

ShlexSplit(text) == ShlexScan(text, "out", <<>>, FALSE, <<>>)

RECURSIVE UnquotedScan(_, _, _)
\* the loop of _extract_unquoted_parts: quote is "" outside a quoted span
UnquotedScan(t, quote, acc) ==
    IF t = <<>> THEN acc
    ELSE LET c == Head(t) IN
        IF quote = "" /\ c \in {SQ, DQ} THEN UnquotedScan(Tail(t), c, acc)
        ELSE IF quote # "" /\ c = quote THEN UnquotedScan(Tail(t), "", acc)
        ELSE IF quote = "" THEN UnquotedScan(Tail(t), "", Append(acc, c))
        ELSE UnquotedScan(Tail(t), quote, acc)

\* _extract_unquoted_parts: the unquoted characters without the first word
ExtractUnquotedParts(text) ==
    LET words == SplitWords(TextStrip(UnquotedScan(text, "", <<>>))) IN
        IF words # <<>> THEN JoinSp(Tail(words)) ELSE <<>>

\* natural_indicators, as far as the words of the texts go: every pattern
\* is a sequence of words separated by \s+ between two \b
NaturalIndicators ==
    { <<"the", "file">>,              \* \bthe\s+(latest|...|file|...)\b
      <<"to", "the">>,                \* \bto\s+(the|my|someone)\b
      <<"HTTP", "requests", "to">> }  \* \bHTTP\s+requests\s+to\b

RECURSIVE SkipSpaces(_, _)
\* the first position from j on that holds no white space
SkipSpaces(t, j) ==
    IF j <= Len(t) /\ t[j] = SP THEN SkipSpaces(t, j + 1) ELSE j

RECURSIVE MatchAt(_, _, _, _)
\* the words k.. of pattern p match the text from position j on
MatchAt(p, k, t, j) ==
    /\ j <= Len(t) /\ t[j] = p[k]
    /\ IF k = Len(p)
       THEN j = Len(t) \/ t[j + 1] \notin WordAtoms
       ELSE /\ j < Len(t) /\ t[j + 1] = SP
            /\ MatchAt(p, k + 1, t, SkipSpaces(t, j + 1))

\* re.search(pattern, text)
ReSearch(p, t) ==
    \E j \in DOMAIN t :
        /\ j = 1 \/ t[j - 1] \notin WordAtoms
        /\ MatchAt(p, 1, t, j)

\* common_words, as far as the words of the texts go
CommonWords == {<<"the">>, <<"to">>}

\* sum(1 for word in words if word in common_words)
CountCommon(words) == Cardinality({i \in DOMAIN words : words[i] \in CommonWords})

\* _check_natural_language_patterns: TRUE when the text looks like arguments
CheckNaturalLanguagePatterns(text) ==
    IF TextStrip(text) = <<>> THEN TRUE
    ELSE LET text_lower == LowerText(text)
             words == SplitWords(text_lower) IN
        IF \E p \in NaturalIndicators : ReSearch(p, text_lower) THEN FALSE
        ELSE IF Len(words) > 2 /\ 5 * CountCommon(words) > 2 * Len(words) THEN FALSE
        ELSE TRUE

\* _args_follow_shell_patterns_lenient
ArgsFollowShellPatternsLenient(original_input, parsed_args) ==
    IF parsed_args = <<>> THEN TRUE
    ELSE IF \E i \in DOMAIN original_input : original_input[i] \in {SQ, DQ} THEN
        LET unquoted_parts == ExtractUnquotedParts(original_input) IN
            IF TextStrip(unquoted_parts) = <<>> THEN TRUE
            ELSE CheckNaturalLanguagePatterns(unquoted_parts)
    ELSE CheckNaturalLanguagePatterns(JoinSp(parsed_args))

\* the builtins of _is_valid_command, as far as the words of the texts go
Builtins == {<<"echo">>}

\* the names `which` finds
OnPath == {<<"ls">>, <<"jq">>}

\* What subprocess.run(["which", command], timeout=2) can do: exit code zero,
\* exit code non-zero, or raise (TimeoutExpired, OSError)
ProbeOutcomes(command) ==
    IF command \in OnPath THEN {"zero", "raises"} ELSE {"nonzero", "raises"}

\* the probe lets the exception of subprocess.run through
CommandExistsRuntimeRaises(command, index, out) ==
    IF out = "zero" THEN [v |-> "true", idx |-> index \cup {command}]
    ELSE IF out = "raises" THEN [v |-> "raised", idx |-> index]
    ELSE [v |-> "false", idx |-> index]

\* the probe does not cache the name it found
CommandExistsRuntimeNoCache(command, index, out) ==
    IF out = "zero" THEN [v |-> "true", idx |-> index]
    ELSE [v |-> "false", idx |-> index]

\* _command_exists_runtime: the value and the index afterwards
CommandExistsRuntime(command, index, out) ==
    IF out = "zero" THEN [v |-> "true", idx |-> index \cup {command}]
    ELSE [v |-> "false", idx |-> index]

\* "/" in command
HasSlash(command) == \E i \in DOMAIN command : command[i] = "./run"

\* _is_valid_command
IsValidCommand(command, index, out) ==
    IF command \in Builtins \/ command \in index \/ HasSlash(command)
    THEN [v |-> "true", idx |-> index]
    ELSE CommandExistsRuntime(command, index, out)

\* is_shell_command(user_input) with the index and the outcome of the probe:
\* the value ("true" | "false" | "raised") and the index afterwards
IsShellCommand(text, index, out) ==
    IF TextStrip(text) = <<>> THEN [v |-> "false", idx |-> index]
    ELSE IF IsObviousNaturalLanguage(text) THEN [v |-> "false", idx |-> index]
    ELSE LET sp == ShlexSplit(text) IN
        IF sp.err THEN [v |-> "false", idx |-> index]
        ELSE IF sp.tokens = <<>> THEN [v |-> "false", idx |-> index]
        ELSE LET command == sp.tokens[1]
                 args == Tail(sp.tokens)
                 valid == IsValidCommand(command, index, out) IN
            IF valid.v = "raised" THEN valid
            ELSE IF valid.v = "false" THEN valid
            ELSE [v |-> IF ArgsFollowShellPatternsLenient(text, args)
                        THEN "true" ELSE "false",
                  idx |-> valid.idx]

\* the first token of a text that shlex.split accepts (<<>> when none)
FirstCommand(text) ==
    LET sp == ShlexSplit(text) IN
        IF sp.err \/ sp.tokens = <<>> THEN <<>> ELSE sp.tokens[1]

\* detector.is_shell_command(user_input) is called
Classify ==
    /\ mainpc = "idle"
    /\ is_shell = "none"
    /\ \E out \in ProbeOutcomes(FirstCommand(user_input)) :
         LET r == IsShellCommand(user_input, available_commands, out) IN
             /\ is_shell' = r.v
             /\ available_commands' = r.idx
    /\ UNCHANGED <<user_input, execVars, mainVars, worker, intVars, term, fixedVars,
                   fdtable, ptyq, child, ki_left, int_left, cd_left, ghostVars,
                   cliVars, sessVars, handlerVars>>

\* The pieces of the texts: a text is a few pieces joined by single spaces
\* (an empty piece gives white space at an end or a double space)
Pieces ==
    {<<w>> : w \in WordAtoms \ {"http"}} \cup
    { <<>>, <<QM>>, <<SQ>>, <<BS>>,
      <<SQ, "the">>, <<"file", SQ>>, <<SQ, "fix", SQ>>,
      <<DQ, BS, DQ, "the">>, <<"file", BS, DQ, DQ>>,
      <<DQ, BS, DQ, "fix", BS, DQ, DQ>> }

ClsMaxPieces == 4

Texts == UNION {[1..n -> Pieces] : n \in 1..ClsMaxPieces}

\* One text is classified
InitClassify ==
    /\ InitShellExecutor
    /\ inv_left = 0 /\ ki_left = 0 /\ int_left = 0 /\ cd_left = 0
    /\ fault_left = 0 /\ reset_left = 0
    /\ stdin_tty = FALSE
    /\ \E ps \in Texts : user_input = JoinSp(ps)
    /\ available_commands = LoadedCommands
    /\ is_shell = "none"
    /\ CliIdle

NextClassify == Classify

SpecClassify == InitClassify /\ [][NextClassify]_vars

\* The texts of a session: one or two pieces
IdxMaxPieces == 2
IndexTexts == {JoinSp(ps) : ps \in UNION {[1..n -> Pieces] : n \in 1..IdxMaxPieces}}

\* The main loop reads the next line
Ask ==
    /\ mainpc = "idle"
    /\ is_shell # "none"
    /\ user_input' \in IndexTexts
    /\ is_shell' = "none"
    /\ UNCHANGED <<available_commands, execVars, mainVars, worker, intVars, term,
                   fixedVars, fdtable, ptyq, child, ki_left, int_left, cd_left,
                   ghostVars, cliVars, sessVars, handlerVars>>

IdxMaxCd == 1

\* Lines are classified one after the other, between cd commands
InitIndex ==
    /\ InitShellExecutor
    /\ stdin_tty = FALSE
    /\ inv_left = 0 /\ ki_left = 0 /\ int_left = 0 /\ cd_left = IdxMaxCd
    /\ fault_left = 0 /\ reset_left = 0
    /\ user_input \in IndexTexts
    /\ available_commands = LoadedCommands
    /\ is_shell = "none"
    /\ CliIdle

NextIndex ==
    \/ Ask
    \/ Classify
    \/ \E c \in CdCommands : Call(c)
    \/ Hist
    \/ Cd

SpecIndex == InitIndex /\ [][NextIndex]_vars

\* ------------------------------------------------------- classifier claims
\* is_shell_command has returned or raised
Classified == is_shell # "none"

\* C21: every non-empty text that ends in "?" is classified as natural
\* language, whatever its first token is.
C21_QuestionIsNotShell ==
    (Classified /\ user_input # <<>> /\ user_input[Len(user_input)] = QM)
        => is_shell = "false"

\* a known command followed by "?" has been classified
C21_Witness ==
    is_shell = "false" /\ user_input = <<"ls", SP, QM>>

\* C22: is_shell_command returns a boolean for every text and never raises,
\* also when the probe fails or times out; a text that shlex.split rejects
\* (unbalanced quotes, a dangling escape) is classified as natural language.
C22_ClassifierTotal ==
    Classified =>
        /\ is_shell \in {"true", "false"}
        /\ ShlexSplit(user_input).err => is_shell = "false"

\* a known command with an unclosed quote has been classified
C22_Witness ==
    is_shell = "false" /\ user_input = <<"ls", SP, SQ, "the">>

RECURSIVE BlankQuoted(_, _)
\* The text with the content of every quoted span removed (the quotes stay);
\* spans are read as the shell and shlex read them: inside "..." a
\* backslash escapes the next character.
BlankQuoted(t, mode) ==
    IF t = <<>> THEN <<>>
    ELSE LET c == Head(t) rest == Tail(t) IN
        IF mode = "sq" THEN
            IF c = SQ THEN <<c>> \o BlankQuoted(rest, "out")
            ELSE BlankQuoted(rest, "sq")
        ELSE IF mode = "dq" THEN
            IF c = DQ THEN <<c>> \o BlankQuoted(rest, "out")
            ELSE IF c = BS /\ rest # <<>> THEN BlankQuoted(Tail(rest), "dq")
            ELSE BlankQuoted(rest, "dq")
        ELSE
            IF c = SQ THEN <<c>> \o BlankQuoted(rest, "sq")
            ELSE IF c = DQ THEN <<c>> \o BlankQuoted(rest, "dq")
            ELSE IF c = BS /\ rest # <<>>
                 THEN <<c, Head(rest)>> \o BlankQuoted(Tail(rest), "out")
            ELSE <<c>> \o BlankQuoted(rest, "out")

\* the text starts with an unquoted command that is a builtin or was loaded
\* from PATH, followed by white space
StartsWithKnownCommand(t) ==
    \E c \in Builtins \cup LoadedCommands : StartsWith(t, c \o <<SP>>)

\* C23: for a text with balanced quotes and a valid command first, the
\* classification does not depend on what is inside the quoted spans: it is
\* the classification of the same text with the spans emptied.
C23_QuotedTextIgnored ==
    (/\ Classified
     /\ ~ShlexSplit(user_input).err
     /\ StartsWithKnownCommand(user_input))
        => is_shell = IsShellCommand(BlankQuoted(user_input, "out"),
                                     available_commands, "nonzero").v

\* the unquoted text after the command, as the classifier extracts it
Residue(text) ==
    IF \E i \in DOMAIN text : text[i] \in {SQ, DQ}
    THEN ExtractUnquotedParts(text)
    ELSE JoinSp(Tail(ShlexSplit(text).tokens))

\* C24: a valid command as first token is not enough: whenever the unquoted
\* residue after the command matches one of the natural-language patterns,
\* the text is classified as natural language.
C24_PhraseBeatsCommand ==
    (/\ Classified
     /\ ~ShlexSplit(user_input).err /\ ShlexSplit(user_input).tokens # <<>>
     /\ \E p \in NaturalIndicators : ReSearch(p, Residue(user_input)))
        => is_shell = "false"

\* C25: is_shell_command changes no session state; the index of known
\* commands never loses a name, and a command the classifier accepted is a
\* builtin, a path, or in the index afterwards (so a name the probe
\* confirmed has been added).
C25_ClassifierFrame ==
    [][/\ available_commands \subseteq available_commands'
       /\ (is_shell = "none" /\ is_shell' # "none") =>
            /\ UNCHANGED <<current_dir, previous_dir, env_vars, shell_history>>
            /\ is_shell' = "true" =>
                  \/ FirstCommand(user_input) \in Builtins
                  \/ HasSlash(FirstCommand(user_input))
                  \/ FirstCommand(user_input) \in available_commands']_vars

\* the probe has confirmed jq after a cd, and jq is in the index
C25_Witness ==
    /\ is_shell = "true" /\ FirstCommand(user_input) = <<"jq">>
    /\ available_commands = LoadedCommands \cup {<<"jq">>}
    /\ shell_history # <<>> /\ current_dir # StartDir

\* ---------------------------------------------------- the command processor
\* (cli/command_processor.py)

\* The values process_command is called with
PyNone == [type |-> "NoneType", text |-> <<>>]
PyInt(n) == [type |-> "int", text |-> <<n>>]
PyStr(t) == [type |-> "str", text |-> t]

\* bool(v)
Truthy(v) ==
    CASE v.type = "NoneType" -> FALSE
      [] v.type = "int" -> v.text # <<"0">>
      [] OTHER -> v.text # <<>>

\* isinstance(v, str)
IsInstanceStr(v) == v.type = "str"

ProcessInputs ==
    {PyNone, PyInt("0"), PyInt("7"), PyStr(<<>>), PyStr(<<SP>>), PyStr(<<SP, SP>>),
     PyStr(<<"ls">>), PyStr(<<SP, "exit">>)}

\* What a call of can_handle gives: a value, an Exception or a KeyboardInterrupt
CanHandleOutcomes == {"True", "False", "Exception", "KeyboardInterrupt"}

\* What a call of handle gives: a value, an Exception, or an exception that
\* is not an Exception: the SystemExit of sys.exit(0) in
\* ControlCommandHandler.handle, a KeyboardInterrupt
HandleOutcomes == {"True", "False", "Exception", "SystemExit", "KeyboardInterrupt"}

\* handler_name is None
NoName == ""

\* CommandProcessor._update_stats
UpdateStats(p, handler_name, success) ==
    IF handler_name # NoName /\ handler_name \in DOMAIN p.handler_stats
    THEN [p EXCEPT !.handler_stats[handler_name] =
             [processed |-> @.processed + 1,
              successful |-> @.successful + (IF success THEN 1 ELSE 0),
              failed |-> @.failed + (IF success THEN 0 ELSE 1)]]
    ELSE p

\* process_command that counts a command before looking at its text
ProcessCommandEntryCountsBlank(inp) ==
    IF ~Truthy(inp) \/ ~IsInstanceStr(inp)
    THEN /\ processor' = UpdateStats(processor, NoName, FALSE)
         /\ pcall' = [NoCall EXCEPT !.user_input = inp, !.result = "False"]
    ELSE IF TextStrip(inp.text) = <<>>
    THEN /\ processor' = [processor EXCEPT !.commands_processed = @ + 1]
         /\ pcall' = [NoCall EXCEPT !.user_input = inp, !.result = "True"]
    ELSE /\ processor' = [processor EXCEPT !.commands_processed = @ + 1]
         /\ pcall' = [NoCall EXCEPT !.user_input = inp, !.pc = "for", !.i = 1]

\* process_command(user_input) from its entry to the handler loop
ProcessCommandEntry(inp) ==
    IF ~Truthy(inp) \/ ~IsInstanceStr(inp)
    THEN /\ processor' = UpdateStats(processor, NoName, FALSE)
         /\ pcall' = [NoCall EXCEPT !.user_input = inp, !.result = "False"]
    ELSE IF TextStrip(inp.text) = <<>>
    THEN /\ processor' = processor
         /\ pcall' = [NoCall EXCEPT !.user_input = inp, !.result = "True"]
    ELSE /\ processor' = [processor EXCEPT !.commands_processed = @ + 1]
         /\ pcall' = [NoCall EXCEPT !.user_input = inp, !.pc = "for", !.i = 1]

\* everything but the command line interface
backVars == <<execVars, mainVars, worker, intVars, term, fixedVars, fdtable,
              ptyq, child, ki_left, int_left, cd_left, ghostVars,
              user_input, available_commands, is_shell, sessVars,
              handlerVars>>

\* process_command is called on a processor that no controller runs
ProcessCommand ==
    /\ controller.pc = "new"
    /\ pcall.pc = "idle"
    /\ proc_left > 0
    /\ proc_left' = proc_left - 1
    /\ \E inp \in ProcessInputs : ProcessCommandEntry(inp)
    /\ UNCHANGED <<controller, line_left, backVars>>

\* The loop without its break: the last handler that accepts is selected
CanHandleNoBreak ==
    /\ pcall.pc = "for"
    /\ pcall.i <= Len(processor.handlers)
    /\ \E r \in CanHandleOutcomes :
         pcall' =
           IF r = "KeyboardInterrupt"
           THEN [pcall EXCEPT !.pc = "idle", !.result = r,
                              !.answers = Append(@, <<pcall.i, r>>)]
           ELSE IF pcall.i = Len(processor.handlers) /\ (r = "True" \/ pcall.selected_handler # 0)
           THEN [pcall EXCEPT !.pc = "handle", !.answers = Append(@, <<pcall.i, r>>),
                              !.selected_handler = IF r = "True" THEN pcall.i ELSE @]
           ELSE [pcall EXCEPT !.i = @ + 1, !.answers = Append(@, <<pcall.i, r>>),
                              !.selected_handler = IF r = "True" THEN pcall.i ELSE @]
    /\ UNCHANGED <<processor, controller, proc_left, line_left, backVars>>

\* One turn of "for handler in self.handlers": handler.can_handle(user_input)
CanHandle ==
    /\ pcall.pc = "for"
    /\ pcall.i <= Len(processor.handlers)
    /\ \E r \in CanHandleOutcomes :
         pcall' =
           CASE r = "True" ->
                  [pcall EXCEPT !.pc = "handle", !.selected_handler = pcall.i,
                                !.answers = Append(@, <<pcall.i, r>>)]
             [] r \in {"False", "Exception"} ->
                  [pcall EXCEPT !.i = @ + 1, !.answers = Append(@, <<pcall.i, r>>)]
             [] OTHER ->
                  [pcall EXCEPT !.pc = "idle", !.result = r,
                                !.answers = Append(@, <<pcall.i, r>>)]
    /\ UNCHANGED <<processor, controller, proc_left, line_left, backVars>>

\* The loop ended with selected_handler None
NoHandler ==
    /\ pcall.pc = "for"
    /\ pcall.i > Len(processor.handlers)
    /\ processor' = UpdateStats(processor, NoName, FALSE)
    /\ pcall' = [pcall EXCEPT !.pc = "idle", !.result = "NoHandlerFoundError"]
    /\ UNCHANGED <<controller, proc_left, line_left, backVars>>

\* Both the inner and the outer exception handler count the failure
HandledTwice(p, handler_name, r) ==
    CASE r = "True" ->
           [UpdateStats(p, handler_name, TRUE)
              EXCEPT !.successful_commands = @ + 1]
      [] r = "False" ->
           [UpdateStats(p, handler_name, FALSE)
              EXCEPT !.failed_commands = @ + 1]
      [] r = "Exception" ->
           [UpdateStats(p, handler_name, FALSE)
              EXCEPT !.failed_commands = @ + 2]
      [] OTHER -> p

\* The processor after selected_handler.handle(user_input) gave r
Handled(p, handler_name, r) ==
    CASE r = "True" ->
           [UpdateStats(p, handler_name, TRUE)
              EXCEPT !.successful_commands = @ + 1]
      [] r \in {"False", "Exception"} ->
           [UpdateStats(p, handler_name, FALSE)
              EXCEPT !.failed_commands = @ + 1]
      [] OTHER -> p

\* What process_command returns or raises after handle gave r
HandleResult(r) == IF r = "Exception" THEN "CommandProcessingError" ELSE r

\* selected_handler.handle(user_input) and the rest of process_command
Handle ==
    /\ pcall.pc = "handle"
    /\ \E r \in HandleOutcomes :
         /\ processor' = Handled(processor, processor.handlers[pcall.selected_handler],
                                 r)
         /\ pcall' = [pcall EXCEPT !.pc = "idle", !.result = HandleResult(r),
                                   !.handled = Append(@, pcall.selected_handler),
                                   !.gave = r]
    /\ UNCHANGED <<controller, proc_left, line_left, backVars>>

MaxCalls == 3

\* A processor with the three handlers, called MaxCalls times
InitProcessor ==
    /\ InitShellExecutor
    /\ stdin_tty = FALSE
    /\ inv_left = 0 /\ ki_left = 0 /\ int_left = 0 /\ cd_left = 0
    /\ fault_left = 0 /\ reset_left = 0
    /\ user_input = <<>>
    /\ available_commands = LoadedCommands
    /\ is_shell = "none"
    /\ processor = NewProcessor
    /\ pcall = NoCall
    /\ controller = NewController
    /\ proc_left = MaxCalls
    /\ line_left = 0
    /\ SessIdle
    /\ HandlerIdle

NextProcessor == ProcessCommand \/ CanHandle \/ NoHandler \/ Handle

SpecProcessor == InitProcessor /\ [][NextProcessor]_vars

\* The first handler whose can_handle returned True in the current call, or 0
FirstAccepting ==
    LET acc == {j \in 1..Len(pcall.answers) : pcall.answers[j][2] = "True"} IN
        IF acc = {} THEN 0
        ELSE pcall.answers[CHOOSE j \in acc : \A k \in acc : j <= k][1]

NonBlankStr(v) == v.type = "str" /\ \E k \in 1..Len(v.text) : v.text[k] # SP

\* A string of white space only, not empty
WhitespaceStr(v) ==
    v.type = "str" /\ v.text # <<>> /\ \A k \in 1..Len(v.text) : v.text[k] = SP

\* A step that is a call of process_command
CallStep == pcall.pc = "idle" /\ proc_left' # proc_left

\* A step in which the selected handler's handle returns or raises
HandleStep == pcall.pc = "handle" /\ pcall'.pc = "idle"

\* What the counters do in a step, when the results in counted are those
\* after which failed_commands is one more
CountersFollow(counted) ==
    /\ CallStep =>
         IF NonBlankStr(pcall'.user_input)
         THEN /\ processor'.commands_processed = processor.commands_processed + 1
              /\ pcall'.pc = "for"
         ELSE /\ processor' = processor
              /\ pcall'.pc = "idle"
              /\ pcall'.result = IF WhitespaceStr(pcall'.user_input)
                                 THEN "True" ELSE "False"
    /\ ~CallStep => processor'.commands_processed = processor.commands_processed
    /\ (HandleStep /\ pcall'.result = "True") =>
         /\ processor'.successful_commands = processor.successful_commands + 1
         /\ processor'.failed_commands = processor.failed_commands
    /\ (HandleStep /\ pcall'.result \in counted) =>
         /\ processor'.successful_commands = processor.successful_commands
         /\ processor'.failed_commands = processor.failed_commands + 1
    /\ ~(HandleStep /\ pcall'.result \in counted \cup {"True"}) =>
         /\ processor'.successful_commands = processor.successful_commands
         /\ processor'.failed_commands = processor.failed_commands

\* C27 as stated: commands_processed counts the calls whose input is a
\* non-blank string; every such call that a handler accepted adds one to
\* exactly one of successful_commands (handle returned True) and
\* failed_commands (handle returned False or raised, whatever it raised);
\* None, a non-string and the empty string return False and white space
\* returns True, and no counter changes.
C27_CountersFollowCalls ==
    [][CountersFollow({"False", "CommandProcessingError", "SystemExit",
                       "KeyboardInterrupt"})]_vars

\* C27: commands_processed counts the calls whose input is a non-blank
\* string; a call that a handler accepted adds one to successful_commands
\* when handle returned True and one to failed_commands when handle returned
\* False or raised an Exception, and changes neither when handle raised a
\* SystemExit or a KeyboardInterrupt or when no handler accepted; None, a
\* non-string and the empty string return False and white space returns
\* True, and no counter changes.
C27_CountersFollowExceptions ==
    [][CountersFollow({"False", "CommandProcessingError"})]_vars

\* Three non-blank calls: one succeeded, one failed, and one was accepted
\* by no handler or left by an exit
C27_Witness ==
    /\ pcall.pc = "idle"
    /\ proc_left = 0
    /\ processor.commands_processed = 3
    /\ processor.successful_commands = 1
    /\ processor.failed_commands = 1

\* A step in which the loop has ended and no handler accepted
NoHandlerStep == pcall.pc = "for" /\ pcall.i > Len(Handlers) /\ pcall'.pc = "idle"

\* The failed count of the selected handler
FailedOf(p) == p.handler_stats[Handlers[pcall.selected_handler]].failed

\* What a step does when no handler accepted, and when handle raised one of
\* the exceptions in wrapped
ErrorsCounted(wrapped) ==
    /\ NoHandlerStep =>
         /\ pcall'.result = "NoHandlerFoundError"
         /\ processor'.failed_commands = processor.failed_commands
    /\ (HandleStep /\ pcall'.gave \in wrapped) =>
         /\ pcall'.result = "CommandProcessingError"
         /\ processor'.failed_commands = processor.failed_commands + 1
         /\ FailedOf(processor') = FailedOf(processor) + 1
    /\ (HandleStep /\ pcall'.gave \notin wrapped \cup {"True", "False"}) =>
         /\ pcall'.result = pcall'.gave
         /\ processor' = processor

InputLines == {<<>>, <<SP>>, <<"ls">>, <<SP, "fix">>, <<"exit">>}

\* What session_manager.get_user_input() raises instead of returning a line
InputErrors == {"KeyboardInterrupt", "EOFError", "SessionError"}

\* "if not user_input.strip(): continue" that skips only the empty line
SkipsEmptyOnly(line) == line = <<>>

\* "if not user_input.strip(): continue"
SkipsInput(line) == TextStrip(line) = <<>>

\* The handler of Ctrl+C that also asks for the exit
HandleCommandInterruptExits(c) ==
    [c EXCEPT !.pc = "finally", !.raised = "KeyboardInterrupt",
              !.exit_requested = TRUE]

\* "except KeyboardInterrupt: self._handle_command_interrupt(); continue".
\* No command runs in the executor here, so interrupt_current_command()
\* returns False and changes nothing
HandleCommandInterrupt(c) ==
    [c EXCEPT !.pc = "while", !.raised = "KeyboardInterrupt"]

\* "except EOFError: self._handle_eof(); break"
HandleEof(c) ==
    [c EXCEPT !.pc = "finally", !.raised = "EOFError", !.exit_requested = TRUE]

\* "except Exception as e: self._handle_command_error(e)": the controller
\* has no method of that name, the AttributeError leaves _main_loop and
\* run() gives it to _handle_unexpected_error
HandleCommandError(c) ==
    [c EXCEPT !.pc = "finally", !.raised = "AttributeError",
              !.exit_requested = TRUE]

\* run() up to the loop
Run ==
    /\ controller.pc = "new"
    /\ pcall.pc = "idle"
    /\ line_left > 0
    /\ controller' = [controller EXCEPT !.pc = "while", !.running = TRUE,
                                        !.exit_requested = FALSE]
    /\ UNCHANGED <<processor, pcall, proc_left, line_left, backVars>>

\* "while self.running and not self.exit_requested"
While ==
    /\ controller.pc = "while"
    /\ controller' =
         [controller EXCEPT !.raised = "none",
                            !.pc = IF controller.running /\ ~controller.exit_requested
                                   THEN "input" ELSE "finally"]
    /\ UNCHANGED <<processor, pcall, proc_left, line_left, backVars>>

\* get_user_input() and the loop body up to the call of process_command
GetUserInput ==
    /\ controller.pc = "input"
    /\ line_left > 0
    /\ line_left' = line_left - 1
    /\ \/ \E line \in InputLines :
            IF SkipsInput(line)
            THEN /\ controller' = [controller EXCEPT !.pc = "while",
                                                     !.read = Append(@, line)]
                 /\ UNCHANGED <<processor, pcall>>
            ELSE /\ controller' = [controller EXCEPT !.pc = "process",
                                                     !.read = Append(@, line),
                                                     !.passed = Append(@, line)]
                 /\ ProcessCommandEntry(PyStr(line))
       \/ \E e \in InputErrors :
            /\ controller' =
                 CASE e = "KeyboardInterrupt" -> HandleCommandInterrupt(controller)
                   [] e = "EOFError" -> HandleEof(controller)
                   [] OTHER -> HandleCommandError(controller)
            /\ UNCHANGED <<processor, pcall>>
    /\ UNCHANGED <<proc_left, backVars>>

\* process_command has returned or raised: the rest of _process_command and
\* of the loop body. A CommandProcessingError and a NoHandlerFoundError are
\* printed; a SystemExit leaves run() through its finally clause
ProcessReturn ==
    /\ controller.pc = "process"
    /\ pcall.pc = "idle"
    /\ controller' =
         CASE pcall.result = "KeyboardInterrupt" -> HandleCommandInterrupt(controller)
           [] pcall.result = "SystemExit" ->
                [controller EXCEPT !.pc = "raised", !.raised = "SystemExit",
                                   !.running = FALSE]
           [] OTHER -> [controller EXCEPT !.pc = "while"]
    /\ UNCHANGED <<processor, pcall, proc_left, line_left, backVars>>

\* A KeyboardInterrupt outside the try statement of the loop: run() calls
\* _handle_keyboard_interrupt
RunInterrupted ==
    /\ controller.pc = "while"
    /\ controller' = [controller EXCEPT !.pc = "finally",
                                        !.raised = "KeyboardInterrupt"]
    /\ UNCHANGED <<processor, pcall, proc_left, line_left, backVars>>

\* stop() is called while a command is processed
ControllerStop ==
    /\ controller.pc = "process"
    /\ ~controller.exit_requested
    /\ controller' = [controller EXCEPT !.exit_requested = TRUE,
                                        !.running = FALSE]
    /\ UNCHANGED <<processor, pcall, proc_left, line_left, backVars>>

\* "finally: self._cleanup()", and run() returns
Cleanup ==
    /\ controller.pc = "finally"
    /\ controller' = [controller EXCEPT !.pc = "returned", !.running = FALSE]
    /\ UNCHANGED <<processor, pcall, proc_left, line_left, backVars>>

MaxLines == 3

\* A controller whose prompt gives MaxLines lines or errors
InitController ==
    /\ InitShellExecutor
    /\ stdin_tty = FALSE
    /\ inv_left = 0 /\ ki_left = 0 /\ int_left = 0 /\ cd_left = 0
    /\ fault_left = 0 /\ reset_left = 0
    /\ user_input = <<>>
    /\ available_commands = LoadedCommands
    /\ is_shell = "none"
    /\ processor = NewProcessor
    /\ pcall = NoCall
    /\ controller = NewController
    /\ proc_left = 0
    /\ line_left = MaxLines
    /\ SessIdle
    /\ HandlerIdle

NextController ==
    \/ Run
    \/ While
    \/ GetUserInput
    \/ CanHandle
    \/ NoHandler
    \/ Handle
    \/ ProcessReturn
    \/ RunInterrupted
    \/ ControllerStop
    \/ Cleanup

SpecController == InitController /\ [][NextController]_vars

\* A KeyboardInterrupt comes out of get_user_input or of process_command
InterruptStep ==
    /\ \/ controller.pc = "input" /\ line_left' # line_left
       \/ controller.pc = "process" /\ controller'.pc # "process"
    /\ controller'.raised = "KeyboardInterrupt"

\* An EOFError comes out of get_user_input
EofStep ==
    /\ controller.pc = "input" /\ line_left' # line_left
    /\ controller'.raised = "EOFError"

\* C29: in CLIController.run, a KeyboardInterrupt raised while the input is
\* read or a command is processed leaves running and exit_requested as they
\* were and takes the loop back to its test, which with running true and no
\* exit requested goes on to the next input; an EOFError sets exit_requested
\* and ends the loop; and running is false whenever run() has returned or
\* has been left by an exception.
C29_LoopLifecycle ==
    /\ [](controller.pc \in {"returned", "raised"} => ~controller.running)
    /\ [][/\ InterruptStep =>
               /\ controller'.pc = "while"
               /\ controller'.exit_requested = controller.exit_requested
               /\ controller'.running = controller.running
          /\ (controller.pc = "while" /\ controller.running
                /\ ~controller.exit_requested /\ controller'.pc # "while") =>
               controller'.pc = "input" \/ controller'.raised = "KeyboardInterrupt"
          /\ EofStep =>
               /\ controller'.exit_requested
               /\ controller'.pc = "finally"
          /\ (controller.pc = "finally" /\ controller' # controller) =>
               controller'.pc = "returned"
         ]_vars

\* After a KeyboardInterrupt during the only command, the prompt was read
\* again until it gave an EOFError, and run() has returned
C29_Witness ==
    /\ controller.pc = "returned"
    /\ ~controller.running
    /\ controller.exit_requested
    /\ controller.raised = "EOFError"
    /\ controller.read = <<<<"ls">>>>
    /\ pcall.result = "KeyboardInterrupt"
    /\ line_left = 0

\* The line has a character that is not white space
NonBlankLine(line) == \E k \in 1..Len(line) : line[k] # SP

\* C30: during CLIController.run the lines given to the command processor
\* are the non-blank lines read so far, each once and in the order read;
\* an empty line or a line of white space is never given to it, and every
\* line given has become a call of process_command with that line.
C30_NonBlankLinesPassedInOrder ==
    /\ controller.passed = SelectSeq(controller.read, NonBlankLine)
    /\ processor.commands_processed = Len(controller.passed)
    /\ controller.passed # <<>> =>
         pcall.user_input = PyStr(controller.passed[Len(controller.passed)])

\* A command, a line of white space and a second command were read, and
\* the two commands were passed
C30_Witness ==
    /\ controller.read = <<<<"ls">>, <<SP>>, <<SP, "fix">>>>
    /\ controller.passed = <<<<"ls">>, <<SP, "fix">>>>
    /\ controller.pc = "while"

\* ------------------------------------------------------- the session manager
\* (cli/session_manager.py)

\* "cwd" of the fallback context
FallbackCwd == "~"

\* self._context_cache_valid and self._context_cache is not None
CacheValid(s) == s.context_cache_valid /\ s.context_cache # "None"

\* get_context that stores what it returns, the fallback too
GetContextCachesFallback(s, dir, ok) ==
    IF CacheValid(s)
    THEN [s EXCEPT !.context = s.context_cache, !.computed = FALSE,
                   !.failed = FALSE]
    ELSE IF ok
    THEN [s EXCEPT !.context_cache = dir, !.context_cache_valid = TRUE,
                   !.context = dir, !.computed = TRUE, !.failed = FALSE]
    ELSE [s EXCEPT !.context_cache = FallbackCwd, !.context_cache_valid = TRUE,
                   !.context = FallbackCwd, !.computed = TRUE, !.failed = TRUE]

\* SessionManager.get_context, when the executor's directory is dir and the
\* system calls getpass.getuser() and socket.gethostname() succeed (ok) or
\* raise
GetContext(s, dir, ok) ==
    IF CacheValid(s)
    THEN [s EXCEPT !.context = s.context_cache, !.computed = FALSE,
                   !.failed = FALSE]
    ELSE IF ok
    THEN [s EXCEPT !.context_cache = dir, !.context_cache_valid = TRUE,
                   !.context = dir, !.computed = TRUE, !.failed = FALSE]
    ELSE [s EXCEPT !.context = FallbackCwd, !.computed = TRUE, !.failed = TRUE]

\* SessionManager._invalidate_context_cache
InvalidateContextCache(s) == [s EXCEPT !.context_cache_valid = FALSE]

\* What prompt() gives: a line, or one of the errors
PromptOutcomes == {"line"} \cup InputErrors

\* everything but the session manager
notSessVars == <<execVars, mainVars, worker, intVars, term, fixedVars, fdtable,
                 ptyq, child, ki_left, int_left, cd_left, ghostVars,
                 user_input, available_commands, is_shell, cliVars,
                 handlerVars>>

\* A method of the session manager is called between two commands
SessionCalled ==
    /\ mainpc = "idle"
    /\ sm_left > 0
    /\ sm_left' = sm_left - 1
    /\ UNCHANGED notSessVars

\* get_context() is called
SessGetContext ==
    /\ SessionCalled
    /\ \E ok \in BOOLEAN :
         session' = [GetContext(session, current_dir, ok)
                       EXCEPT !.last = "get_context", !.returned = TRUE]

\* get_user_input() is called: the prompt shows the context, and the cache
\* is invalidated when prompt() returns a line
SessGetUserInput ==
    /\ SessionCalled
    /\ \E ok \in BOOLEAN, ev \in PromptOutcomes :
         LET s1 == GetContext(session, current_dir, ok)
             s2 == [s1 EXCEPT !.prompt_cwd = s1.context,
                              !.prompt_dir = current_dir,
                              !.last = "get_user_input",
                              !.returned = (ev = "line")]
         IN  session' = IF ev = "line" THEN InvalidateContextCache(s2) ELSE s2

\* _invalidate_context_cache() is called
SessInvalidate ==
    /\ SessionCalled
    /\ session' = [InvalidateContextCache(session)
                     EXCEPT !.last = "_invalidate_context_cache",
                            !.returned = TRUE]

\* force_context_refresh() is called
ForceContextRefresh ==
    /\ SessionCalled
    /\ \E ok \in BOOLEAN :
         session' = [GetContext(InvalidateContextCache(session), current_dir, ok)
                       EXCEPT !.last = "force_context_refresh",
                              !.returned = TRUE]

\* get_session_info() is called
GetSessionInfo ==
    /\ SessionCalled
    /\ \E ok \in BOOLEAN :
         session' = [GetContext(session, current_dir, ok)
                       EXCEPT !.last = "get_session_info", !.returned = TRUE]

SmMaxCalls == 4
SmMaxCd == 2

\* A session manager on an executor that runs cd commands
InitSessionManager ==
    /\ InitShellExecutor
    /\ stdin_tty = FALSE
    /\ inv_left = 0 /\ ki_left = 0 /\ int_left = 0 /\ cd_left = SmMaxCd
    /\ fault_left = 0 /\ reset_left = 0
    /\ user_input = <<>>
    /\ available_commands = LoadedCommands
    /\ is_shell = "none"
    /\ processor = NewProcessor
    /\ pcall = NoCall
    /\ controller = NewController
    /\ proc_left = 0
    /\ line_left = 0
    /\ session = NewSession
    /\ sm_left = SmMaxCalls
    /\ HandlerIdle

NextSessionManager ==
    \/ SessGetContext
    \/ SessGetUserInput
    \/ SessInvalidate
    \/ ForceContextRefresh
    \/ GetSessionInfo
    \/ \E c \in CdCommands : Call(c)
    \/ Hist
    \/ Cd

SpecSessionManager == InitSessionManager /\ [][NextSessionManager]_vars

\* A step that calls get_context on the session as it is
ReadsContext ==
    /\ sm_left' # sm_left
    /\ session'.last \in {"get_context", "get_session_info", "get_user_input"}

\* What get_context does in a step, when after is true of the sessions after
\* which it has to recompute
CacheFollowed(after) ==
    /\ (ReadsContext /\ CacheValid(session)) =>
         /\ session'.context = session.context_cache
         /\ session'.context_cache = session.context_cache
         /\ ~session'.computed
    /\ (ReadsContext /\ after /\ ~session'.failed) =>
         /\ session'.computed
         /\ session'.context = current_dir
         /\ session'.context_cache = current_dir
         /\ session'.last # "get_user_input" => session'.context_cache_valid
    /\ (sm_left' # sm_left /\ session'.failed) =>
         /\ session'.context = FallbackCwd
         /\ session'.context_cache = session.context_cache

InitPump ==
    /\ InitExecutor
    /\ inv_left = MaxInv /\ ki_left = 0 /\ int_left = 0 /\ cd_left = 0
    /\ fault_left = 0 /\ reset_left = 0

\* The steps of the invoking thread when no KeyboardInterrupt is delivered
MainPump ==
    \/ \E c \in PtyCommands : Call(c)
    \/ Hist \/ Clear \/ Save \/ OpenPty \/ Spawn \/ CloseSlave \/ Start
    \/ Wait \/ Stop \/ JoinWorker \/ Read
    \/ CStop \/ CNewline \/ CRestore \/ CCloseMaster \/ CCloseSlave
    \/ CTerm

\* The steps of a child that no signal reaches: _cleanup_pty runs only after
\* wait() has returned, so CTerm finds the child exited
ChildPump(k) == ChildWrite(k) \/ ChildExit(k)

NextPump ==
    \/ MainPump
    \/ \E k \in Inv : WorkerStep(k)
    \/ \E k \in Inv : ChildPump(k)

SpecPump ==
    /\ InitPump
    /\ [][NextPump]_vars
    /\ WF_vars(MainPump)
    /\ \A k \in Inv : WF_vars(WorkerStep(k))
    /\ \A k \in Inv : WF_vars(ChildPump(k))

\* The pump worker of execution k is in _handle_pty_io
PumpRunning(k) == worker[k].pc \notin {"new", "done"}

\* The worker of execution k leaves _handle_pty_io
PumpExit(k) == worker[k].pc = "fin" /\ worker'[k].pc = "done"

\* C32: the pump worker always terminates: once the stop flag is set or the
\* child of its execution has exited (which is also what a read of no bytes
\* and a read of a closed descriptor mean), the worker ends; and when it
\* ends after having set raw mode, it leaves the terminal in cooked mode.
C32_PumpTerminates ==
    /\ \A k \in Inv :
         [](PumpRunning(k) /\ (stop_io \/ child[k].st \in {"zombie", "reaped"})
              => <>(worker[k].pc = "done"))
    /\ [][\A k \in Inv :
            (PumpExit(k) /\ worker[k].raw_mode_set) => term' = "cooked"]_vars

\* ------------------------------------------------ the teardown of the child
\* _cleanup_pty has sent SIGTERM and sleeps before it polls again
TermSent == mainpc # "c_kill" /\ mainpc' = "c_kill"

\* Child k is hit by SIGKILL in this step
KillHits(k) == child[k].code # 0 - SIGKILL /\ child'[k].code = 0 - SIGKILL

\* Child k has not exited
Alive(k) == child[k].st \in {"running", "dying"}

\* The teardown block of _cleanup_pty is left, by one of its own steps
TeardownLeft ==
    /\ mainpc \in {"c_term", "c_kill"}
    /\ mainpc' \notin {"c_term", "c_kill"}
    /\ ~KICleanup

\* C33: the teardown of the child in _cleanup_pty is an ordered escalation.
\* SIGTERM is sent only from the start of the teardown and only to a child
\* that has not exited; SIGKILL hits a child only after that SIGTERM and the
\* sleep, and only a child that has still not exited (it ignores SIGTERM or
\* is still dying); the state and exit code of a child that has exited are
\* changed by no signal; and every way out of the teardown block leaves the
\* process handle None, also when a step of the block failed.
C33_OrderedEscalation ==
    /\ [](mainpc = "c_kill" =>
            /\ process # None
            /\ child[process].st # "running" \/ child[process].cmd.ignTerm)
    /\ [][/\ TermSent =>
               mainpc = "c_term" /\ process # None /\ Alive(process)
          /\ \A k \in Inv :
               KillHits(k) => mainpc = "c_kill" /\ process = k /\ Alive(k)
          /\ \A k \in Inv :
               child[k].st \in {"zombie", "reaped"} =>
                   child'[k].code = child[k].code
          /\ TeardownLeft => process' = None]_vars

\* A call has returned after its cleanup sent SIGTERM and then SIGKILL to a
\* child that ignored the SIGTERM
C33_Witness ==
    /\ mainpc = "idle" /\ outcome = "returned" /\ process = None
    /\ \E k \in Inv : child[k].cmd.ignTerm /\ child[k].code = 0 - SIGKILL

\* ------------------------------------------------- the newline of cleanup
\* C34: in one call, cleanup writes at most one newline to the real stdout,
\* and none when stdout is not a terminal or nothing was captured; on the
\* interrupt and exception paths as on the normal path.
C34_OneNewline ==
    /\ newlines <= 1
    /\ newlines > 0 => stdin_tty /\ output_buffer # <<>>

\* ------------------------------------------------ the shell command handler
\* ShellCommandHandler.handle calls execute_shell_command and, when that call
\* has returned, decides from the text alone whether the command succeeded

\* The texts that start with the cross mark
CrossTexts == {ErrorMarker} \cup {ExitMarker(n) : n \in {1, 3, -2, -9, -15}}

\* output and output.startswith(cross)
StartsWithCross(output) == output # <<>> /\ Head(output) \in CrossTexts

\* the value of success after the if/elif/else
ShellSuccess(output) == ~StartsWithCross(output)

\* the text stored for the assistant
HistoryOutput(input, output) ==
    IF StartsWithCross(output) \/ Strip(output) # <<>>
    THEN output
    ELSE <<"V Executed", input>>

\* agent.messages after the two appends
AppendMessages(messages, input, output) ==
    messages \o <<[role |-> "user", text |-> <<input>>],
                  [role |-> "assistant", text |-> HistoryOutput(input, output)]>>

\* The second half of handle: execute_shell_command has returned or raised.
\* A KeyboardInterrupt out of the executor is not an Exception and leaves
\* handle without a value.
ShellHandlerHandle ==
    /\ mainpc = "idle" /\ outcome # "none"
    /\ shell_handler.handled < inv
    /\ shell_handler' =
         IF outcome = "raised"
         THEN [shell_handler EXCEPT !.success = "raised",
                                    !.handled = @ + 1]
         ELSE [success |-> IF ShellSuccess(result) THEN "True" ELSE "False",
               messages |-> AppendMessages(shell_handler.messages, cmd.arg,
                                           result),
               handled |-> shell_handler.handled + 1]
    /\ UNCHANGED <<execVars, mainVars, worker, intVars, term, fixedVars, fdtable,
                   ptyq, child, ki_left, int_left, cd_left, ghostVars,
                   user_input, available_commands, is_shell, cliVars, sessVars>>

\* The commands given to the handler: with and without output, ending with
\* code 0 and with another code, and full-screen programs
HandlerCommands ==
    PtyCommands \cup
    { [kind |-> "pty", arg |-> "cat nofile", words |-> <<"cat", "nofile">>,
       out |-> << <<"h", "nl">> >>, code |-> 1,
       stay |-> FALSE, ignInt |-> FALSE, ignTerm |-> FALSE],
      [kind |-> "pty", arg |-> "true", words |-> <<"true">>,
       out |-> <<>>, code |-> 0,
       stay |-> FALSE, ignInt |-> FALSE, ignTerm |-> FALSE] }

HandlerMaxInv == 1

InitShellHandler ==
    /\ InitExecutor
    /\ inv_left = HandlerMaxInv /\ ki_left = MaxKI /\ int_left = 0
    /\ cd_left = 0 /\ fault_left = 0 /\ reset_left = 0

NextShellHandler ==
    \/ \E c \in HandlerCommands : Call(c)
    \/ ExecStep
    \/ \E k \in Inv : WorkerStep(k)
    \/ \E k \in Inv : ChildStep(k)
    \/ ShellHandlerHandle

SpecShellHandler == InitShellHandler /\ [][NextShellHandler]_vars

\* handle has returned a value for the execution that just ended
HandleReturned ==
    /\ inv > 0 /\ shell_handler.handled = inv
    /\ mainpc = "idle" /\ outcome = "returned"

\* The executor reported an error, or the command ended with a code other
\* than 0
CommandFailed ==
    \/ result = <<ErrorMarker>>
    \/ buf_read /\ exit_code # 0

\* C35: handle returns False for every command that failed, with or without
\* output, and True for every command that ended with code 0; in both cases
\* agent.messages has gained exactly two messages, the command of the user
\* and then the result.
C35_HandleReportsFailure ==
    HandleReturned =>
        /\ CommandFailed => shell_handler.success = "False"
        /\ (buf_read /\ exit_code = 0) => shell_handler.success = "True"
        /\ Len(shell_handler.messages) = 2 * shell_handler.handled
        /\ shell_handler.messages[1] = [role |-> "user", text |-> <<cmd.arg>>]
        /\ shell_handler.messages[2].role = "assistant"

\* ------------------------------------------- other errors in the main loop
\* get_user_input raised something other than KeyboardInterrupt and EOFError
OtherErrorStep ==
    /\ controller.pc = "input" /\ line_left' # line_left
    /\ controller'.read = controller.read
    /\ controller'.raised \notin {"none", "KeyboardInterrupt", "EOFError"}

\* C36: an exception other than KeyboardInterrupt and EOFError raised in the
\* body of the main loop does not end the loop: exit_requested stays false
\* and the loop goes on with its next test.
C36_OtherErrorsKeepLoop ==
    [][OtherErrorStep =>
          /\ controller'.pc = "while"
          /\ controller'.exit_requested = controller.exit_requested]_vars

\* ------------------------------------------ reset_state and the previous
\* C37: reset_state returns the session to its freshly constructed state,
\* the previous directory included: after it no previous directory is
\* recorded, whatever cd commands ran before.
C37_ResetForgetsPrevious ==
    [][ResetStep => previous_dir' = "unset"]_vars

\* -------------------------------------------- the statistics of the processor
\* isinstance(handler, handler_class): every handler class derives BaseHandler
IsInstance(handler, handler_class) ==
    handler_class = "BaseHandler" \/ handler = handler_class

\* list.insert(position, handler), for a position from 0 to len(list)
ListInsert(list, position, handler) ==
    SubSeq(list, 1, position) \o <<handler>>
        \o SubSeq(list, position + 1, Len(list))

\* f with the value v at the key n, which may be a new key
DictSet(f, n, v) ==
    [m \in DOMAIN f \cup {n} |-> IF m = n THEN v ELSE f[m]]

\* del f[n]
DictDel(f, n) == [m \in DOMAIN f \ {n} |-> f[m]]

ZeroStats == [processed |-> 0, successful |-> 0, failed |-> 0]

\* One of the three methods is called between two calls of process_command
StatsCalled ==
    /\ controller.pc = "new"
    /\ pcall.pc = "idle"
    /\ proc_left > 0
    /\ proc_left' = proc_left - 1
    /\ UNCHANGED <<pcall, controller, line_left, backVars>>

MaxHandlers == 4

\* add_handler(handler, position)
AddHandler ==
    /\ StatsCalled
    /\ Len(processor.handlers) < MaxHandlers
    /\ \E handler \in HandlerNames :
       \E position \in {PyNone} \cup
                        {PyInt(n) : n \in 0..Len(processor.handlers)} :
         processor' =
           [processor EXCEPT
              !.handlers = IF position = PyNone THEN Append(@, handler)
                           ELSE ListInsert(@, position.text[1], handler),
              !.handler_stats = DictSet(@, handler, ZeroStats)]

\* remove_handler(handler_class): the first handler of the class goes, and
\* the statistics kept under the name of its class with it
RemoveHandler ==
    /\ StatsCalled
    /\ \E handler_class \in HandlerNames \cup {"BaseHandler"} :
         LET hs == processor.handlers
             found == {i \in 1..Len(hs) : IsInstance(hs[i], handler_class)}
         IN  IF found = {} THEN processor' = processor
             ELSE LET i == CHOOSE j \in found : \A k \in found : j <= k IN
                  processor' =
                    [processor EXCEPT
                       !.handlers = SubSeq(hs, 1, i - 1)
                                      \o SubSeq(hs, i + 1, Len(hs)),
                       !.handler_stats = DictDel(@, hs[i])]

\* reset_stats()
ResetStats ==
    /\ StatsCalled
    /\ processor' =
         [processor EXCEPT
            !.commands_processed = 0,
            !.successful_commands = 0,
            !.failed_commands = 0,
            !.handler_stats = [n \in DOMAIN @ |-> ZeroStats]]

StatsMaxCalls == 4

InitStats ==
    /\ InitShellExecutor
    /\ stdin_tty = FALSE
    /\ inv_left = 0 /\ ki_left = 0 /\ int_left = 0 /\ cd_left = 0
    /\ fault_left = 0 /\ reset_left = 0
    /\ user_input = <<>>
    /\ available_commands = LoadedCommands
    /\ is_shell = "none"
    /\ processor = NewProcessor
    /\ pcall = NoCall
    /\ controller = NewController
    /\ proc_left = StatsMaxCalls
    /\ line_left = 0
    /\ SessIdle
    /\ HandlerIdle

NextStats ==
    \/ NextProcessor
    \/ AddHandler
    \/ RemoveHandler
    \/ ResetStats

SpecStats == InitStats /\ [][NextStats]_vars

RECURSIVE SumProcessed(_, _)
\* the sum of processed over the names in ns
SumProcessed(stats, ns) ==
    IF ns = {} THEN 0
    ELSE LET n == CHOOSE m \in ns : TRUE
         IN  stats[n].processed + SumProcessed(stats, ns \ {n})

\* C38: after any sequence of process_command, add_handler, remove_handler
\* and reset_stats calls, every entry of handler_stats has processed =
\* successful + failed, and the processed counts of all entries add up to
\* successful_commands + failed_commands.
C38_StatsAddUp ==
    pcall.pc = "idle" =>
        /\ \A n \in DOMAIN processor.handler_stats :
             LET st == processor.handler_stats[n]
             IN  st.processed = st.successful + st.failed
        /\ SumProcessed(processor.handler_stats,
                        DOMAIN processor.handler_stats)
             = processor.successful_commands + processor.failed_commands

\* ------------------------------------------- the directory in the prompt
\* C39: the working directory shown in the prompt of every get_user_input
\* call (one whose context was not the fallback) is the executor's current
\* directory at the time of the call, for every interleaving of the session
\* manager's methods with cd commands.
C39_PromptShowsCurrentDir ==
    (session.last = "get_user_input" /\ ~session.failed) =>
        session.prompt_cwd = session.prompt_dir

\* --------------------------------------------- the snapshot of the terminal
\* C40: the terminal attributes saved at the start of an execution as the
\* original settings are never raw-mode attributes, so that no restore
\* installs raw mode.
C40_SnapshotNeverRaw == original_settings # "raw"

====
